---- MODULE Spec2Model ----
(***************************************************************************)
(* Market Price & Profit Intelligence Engine of Agri-bot.                  *)
(*                                                                         *)
(* agri-market        : comparePrices, getPriceTrend (queries.ts) behind   *)
(*                      the compare_prices / get_price_trend tools.        *)
(* agri-price-prediction : predictWPIIndex, applyWPIChangeToPrice,         *)
(*                      calculateStorageCost (prediction-algorithm) behind *)
(*                      the analyze_profit_scenarios tool.                 *)
(*                                                                         *)
(* Numbers are fixed point.  JavaScript doubles are replaced by exact      *)
(* integers in the unit named at each definition:                          *)
(*   coordinates      micro-degrees                                        *)
(*   raw distance     metres                                               *)
(*   reported km      1/100 km        (Math.round(x * 100) / 100)          *)
(*   raw money        1/1000 rupee                                         *)
(*   reported money   1/100 rupee     (Math.round(x * 100) / 100)          *)
(*   WPI index        1/10 index point, regression coefficients 1/100      *)
(*   percentages      1/100 percent   (Math.round(x * 100) / 100)          *)
(* A division by zero yields the IEEE value the code gets (NaN, Infinity). *)
(***************************************************************************)
EXTENDS Integers, Sequences, FiniteSets, TLC

VARIABLES db, req, res

vars == <<db, req, res>>

(***************************************************************************)
(* Arithmetic helpers                                                      *)
(***************************************************************************)

\* Math.round(n / d) for d > 0: the nearest integer, halves towards +Infinity.
RoundDiv(n, d) == (2 * n + d) \div (2 * d)

Abs(n) == IF n < 0 THEN -n ELSE n

RECURSIVE SqrtSearch(_, _, _)
SqrtSearch(n, lo, hi) ==
    IF lo >= hi THEN lo
    ELSE LET mid == (lo + hi + 1) \div 2
         IN  IF mid * mid <= n THEN SqrtSearch(n, mid, hi)
             ELSE SqrtSearch(n, lo, mid - 1)

\* Math.sqrt on whole metres: the integer nearest to the square root.
SqrtNearest(n) ==
    LET s == SqrtSearch(n, 0, 46340)
    IN  IF n - s * s <= s THEN s ELSE s + 1

\* Math.cos((farmerLat * Math.PI) / 180) * 10^4, interpolated between whole
\* degrees (the region served lies between 12 and 18 degrees north).
CosTable ==
    [d \in 12..19 |->
        CASE d = 12 -> 9781 [] d = 13 -> 9744 [] d = 14 -> 9703 [] d = 15 -> 9659
          [] d = 16 -> 9613 [] d = 17 -> 9563 [] d = 18 -> 9511 [] d = 19 -> 9455]

CosE4(lat) ==
    LET d == lat \div 1000000
        f == (lat % 1000000) \div 1000
    IN  RoundDiv(CosTable[d] * (1000 - f) + CosTable[d + 1] * f, 1000)

(***************************************************************************)
(* agri-market: reference data                                             *)
(***************************************************************************)

\* Number of rows of the mandis table.
NumMandis == 3

MandiIds == 1..NumMandis

\* Seller locations used by the requests: A = Dharwad (15.46, 75.01), B lies
\* half way between mandi 1 and mandi 2.
FarmerA == [lat |-> 15460000, lon |-> 75010000]
FarmerB == [lat |-> 15505063, lon |-> 75010000]
FarmerLocations == {FarmerA, FarmerB}

\* mandis rows (id, name, lat, lon).  Mandi 1 stands at A, mandi 2 lies
\* 10.004 km north of A, mandi 3 about 39 km to the south-east, mandi 4 at B.
MandiRow(i) ==
    CASE i = 1 -> [id |-> 1, name |-> "Dharwad APMC", lat |-> 15460000, lon |-> 75010000]
      [] i = 2 -> [id |-> 2, name |-> "Hubli APMC",   lat |-> 15550126, lon |-> 75010000]
      [] i = 3 -> [id |-> 3, name |-> "Gadag APMC",   lat |-> 15350000, lon |-> 75360000]
      [] i = 4 -> [id |-> 4, name |-> "Navalgund APMC", lat |-> 15505063, lon |-> 75010000]
      [] OTHER -> [id |-> i, name |-> "Mandi", lat |-> 15460000 + 20000 * i,
                   lon |-> 75010000 + 10000 * i]

Crops == {"rice", "ragi"}

\* Support prices crop_msp may hold for rice (rupees per quintal).
MspPrices == {2200, 2420}

QuotePrices == {2420, 2500}

\* market_config.transport_cost_per_km: no row, or a row with this value.
ConfigRates == {0, 12, 15}

\* mandi_prices tables: rows in rowid order, UNIQUE(mandi_id, crop_name), every
\* mandi_id in mandis, every crop_name in crop_msp (foreign_keys = ON).
QuoteTables ==
    { q \in UNION { [1..k -> [mandi_id : MandiIds, crop_name : {"rice"},
                              current_price : QuotePrices]] : k \in 0..NumMandis } :
        \A i, j \in DOMAIN q : i # j => q[i].mandi_id # q[j].mandi_id }

EmptyDb ==
    [crop_msp |-> {}, mandi_prices |-> <<>>, price_trends |-> {}, market_config |-> <<>>]

\* Databases for the comparator: crop_msp holds rice or nothing.
CompareDbs ==
    { [crop_msp |-> {[crop_name |-> "rice", msp_price |-> p]},
       mandi_prices |-> q, price_trends |-> {}, market_config |-> c] :
        p \in MspPrices, q \in QuoteTables,
        c \in {<<>>} \cup { <<r>> : r \in ConfigRates } }
    \cup { [EmptyDb EXCEPT !.market_config = c] :
             c \in {<<>>} \cup { <<r>> : r \in ConfigRates } }

NoReq == [tool |-> "none"]
NoRes == [tool |-> "none"]

(***************************************************************************)
(* agri-market: comparePrices                                              *)
(***************************************************************************)

DefaultTransportCostPerKm == 12

\* const transportCostPerKm = config?.value || 12
transportCostPerKm(d) ==
    IF d.market_config = <<>> \/ d.market_config[1] = 0
    THEN DefaultTransportCostPerKm
    ELSE d.market_config[1]

\* SELECT msp_price FROM crop_msp WHERE crop_name = ?   (.get(): rows found)
cropMsp(d, cropName) == { r \in d.crop_msp : r.crop_name = cropName }

\* SELECT ... FROM mandi_price_summary WHERE crop_name = ?
\* (mandis JOIN mandi_prices JOIN crop_msp), rows in mandi_prices order.
mandiPriceSummary(d, cropName) ==
    LET rows == SelectSeq(d.mandi_prices,
                    LAMBDA p : p.crop_name = cropName
                               /\ p.mandi_id \in MandiIds
                               /\ cropMsp(d, p.crop_name) # {})
    IN  [i \in 1..Len(rows) |->
            [mandi_id |-> rows[i].mandi_id,
             mandi_name |-> MandiRow(rows[i].mandi_id).name,
             lat |-> MandiRow(rows[i].mandi_id).lat,
             lon |-> MandiRow(rows[i].mandi_id).lon,
             current_price |-> rows[i].current_price]]

KmPerDegree == 111

\* Raw distance in metres from the farmer to a mandi row.
rawDistance(mandi, farmerLat, farmerLon) ==
    LET latDiff == RoundDiv((mandi.lat - farmerLat) * KmPerDegree, 1000)
        lonDiff == RoundDiv(RoundDiv((mandi.lon - farmerLon) * KmPerDegree, 1000)
                            * CosE4(farmerLat), 10000)
    IN  SqrtNearest(latDiff * latDiff + lonDiff * lonDiff)

\* The .map() callback: one MandiPriceWithDistance.
withDistance(mandi, farmerLat, farmerLon, rate) ==
    LET distance_m     == rawDistance(mandi, farmerLat, farmerLon)
        transport_cost == distance_m * rate
        net_price      == mandi.current_price * 1000 - transport_cost
    IN  [mandi_id |-> mandi.mandi_id,
         mandi_name |-> mandi.mandi_name,
         current_price |-> mandi.current_price,
         distance_km |-> RoundDiv(distance_m, 10),
         transport_cost |-> RoundDiv(transport_cost, 10),
         net_price |-> RoundDiv(net_price, 10)]

\* Mutant: "if (radiusKm)" - a radius of 0 is taken for an omitted one.
withinRadiusTruthy(mandi, radiusKm) ==
    IF radiusKm # <<>> /\ radiusKm[1] # 0
    THEN mandi.distance_km <= radiusKm[1] * 100 ELSE TRUE

\* Mutant: "<" for "<=".
withinRadiusStrict(mandi, radiusKm) ==
    IF radiusKm # <<>> THEN mandi.distance_km < radiusKm[1] * 100 ELSE TRUE

\* The .filter() callback; radiusKm is <<>> (undefined) or <<km>>.
withinRadius(mandi, radiusKm) ==
    IF radiusKm # <<>> THEN mandi.distance_km <= radiusKm[1] * 100 ELSE TRUE

\* Mutant: an unstable insertion, x goes before the elements it ties with.
RECURSIVE InsertByNetUnstable(_, _)
InsertByNetUnstable(x, s) ==
    IF s = <<>> THEN <<x>>
    ELSE IF x.net_price >= Head(s).net_price THEN <<x>> \o s
    ELSE <<Head(s)>> \o InsertByNetUnstable(x, Tail(s))

\* One step of the stable sort: x goes behind every element it does not beat.
RECURSIVE InsertByNet(_, _)
InsertByNet(x, s) ==
    IF s = <<>> THEN <<x>>
    ELSE IF x.net_price > Head(s).net_price THEN <<x>> \o s
    ELSE <<Head(s)>> \o InsertByNet(x, Tail(s))

\* Mutant: the .sort() call is missing.
sortMissing(s) == s

\* .sort((a, b) => b.net_price - a.net_price), Array.prototype.sort is stable.
RECURSIVE sortByNetPriceDesc(_)
sortByNetPriceDesc(s) ==
    IF s = <<>> THEN <<>>
    ELSE InsertByNet(s[Len(s)], sortByNetPriceDesc(SubSeq(s, 1, Len(s) - 1)))

Null == [kind |-> "null"]

\* Mutant: ">" for ">=".
recommendationForStrict(best_mandi, msp_price) ==
    IF best_mandi.net_price > msp_price * 100
    THEN [advice |-> "SELL_AT", mandi_name |-> best_mandi.mandi_name,
          net_price |-> best_mandi.net_price,
          transport_cost |-> best_mandi.transport_cost, msp |-> msp_price]
    ELSE [advice |-> "BELOW_MSP_CLAIM_SUPPORT", mandi_name |-> best_mandi.mandi_name,
          net_price |-> best_mandi.net_price,
          transport_cost |-> best_mandi.transport_cost, msp |-> msp_price]

\* if (best_mandi.net_price >= cropMsp.msp_price) ... else ...
recommendationFor(best_mandi, msp_price) ==
    IF best_mandi.net_price >= msp_price * 100
    THEN [advice |-> "SELL_AT", mandi_name |-> best_mandi.mandi_name,
          net_price |-> best_mandi.net_price,
          transport_cost |-> best_mandi.transport_cost, msp |-> msp_price]
    ELSE [advice |-> "BELOW_MSP_CLAIM_SUPPORT", mandi_name |-> best_mandi.mandi_name,
          net_price |-> best_mandi.net_price,
          transport_cost |-> best_mandi.transport_cost, msp |-> msp_price]

comparePrices(d, cropName, farmerLat, farmerLon, radiusKm) ==
    LET rate   == transportCostPerKm(d)
        msp    == cropMsp(d, cropName)
        mandis == mandiPriceSummary(d, cropName)
        mapped == [i \in 1..Len(mandis) |->
                      withDistance(mandis[i], farmerLat, farmerLon, rate)]
        mandisWithDistance ==
            sortByNetPriceDesc(SelectSeq(mapped, LAMBDA m : withinRadius(m, radiusKm)))
    IN  IF msp = {} THEN Null
        ELSE IF Len(mandis) = 0 THEN Null
        ELSE IF Len(mandisWithDistance) = 0 THEN Null
        ELSE [kind |-> "result",
              crop |-> cropName,
              mandis |-> mandisWithDistance,
              best_mandi |-> mandisWithDistance[1],
              recommendation |->
                  recommendationFor(mandisWithDistance[1],
                                    (CHOOSE r \in msp : TRUE).msp_price)]

\* Radii a request may carry (km); <<>> is an omitted radius_km.
Radii == {<<>>, <<0>>, <<5>>, <<10>>, <<45>>}

CompareRequests ==
    [tool : {"compare_prices"}, crop : Crops, farmer : FarmerLocations, radius_km : Radii]

\* A compare_prices call arrives.
CallComparePrices ==
    /\ req = NoReq
    /\ \E r \in CompareRequests : req' = r
    /\ res' = NoRes
    /\ UNCHANGED db

\* The compare_prices tool handler: result or the error text.
HandleComparePrices ==
    /\ req.tool = "compare_prices"
    /\ LET result == comparePrices(db, req.crop, req.farmer.lat, req.farmer.lon,
                                   req.radius_km)
       IN  res' = [tool |-> "compare_prices", args |-> req,
                   error |-> (result = Null), body |-> result]
    /\ req' = NoReq
    /\ UNCHANGED db

InitCompare ==
    /\ db \in CompareDbs
    /\ req = NoReq
    /\ res = NoRes

NextCompare == CallComparePrices \/ HandleComparePrices

SpecCompare == InitCompare /\ [][NextCompare]_vars

(***************************************************************************)
(* agri-market: getPriceTrend                                              *)
(***************************************************************************)

\* Longest price history a (mandi, crop) pair holds in price_trends.
MaxHistory == 3

\* Prices a history point may carry (price REAL NOT NULL, >= 0).
TrendPrices == {0, 3900, 3939, 3960, 4000, 4200}

\* price_trends tables: rows for (mandi 1, rice) with day_offset 0..n-1,
\* UNIQUE(mandi_id, crop_name, day_offset), every mandi_id in mandis.
TrendTables ==
    { { [mandi_id |-> 1, crop_name |-> "rice", day_offset |-> i - 1, price |-> h[i]] :
          i \in DOMAIN h } :
        h \in UNION { [1..n -> TrendPrices] : n \in 0..MaxHistory } }

TrendDbs ==
    { [crop_msp |-> {[crop_name |-> "rice", msp_price |-> 2200]},
       mandi_prices |-> <<>>, price_trends |-> t, market_config |-> <<12>>] :
        t \in TrendTables }

\* SELECT name FROM mandis WHERE id = ?
mandiById(mandiId) == { MandiRow(i) : i \in { j \in MandiIds : j = mandiId } }

\* SELECT price FROM price_trends WHERE mandi_id = ? AND crop_name = ?
\* ORDER BY day_offset ASC
trendRows(d, mandiId, cropName) ==
    LET rows == { r \in d.price_trends : r.mandi_id = mandiId /\ r.crop_name = cropName }
        rank(r) == Cardinality({ o \in rows : o.day_offset < r.day_offset }) + 1
    IN  [i \in 1..Cardinality(rows) |-> (CHOOSE r \in rows : rank(r) = i).price]

\* (change / first_price) * 100 as an IEEE value: a fraction num / den with
\* den > 0, or NaN (0 / 0), Infinity, -Infinity (x / 0).
changePercent(first_price, last_price) ==
    LET change == last_price - first_price
    IN  IF first_price > 0 THEN [kind |-> "finite", num |-> change * 100, den |-> first_price]
        ELSE IF first_price < 0
             THEN [kind |-> "finite", num |-> -(change * 100), den |-> -first_price]
        ELSE IF change = 0 THEN [kind |-> "NaN", num |-> 0, den |-> 1]
        ELSE IF change > 0 THEN [kind |-> "Infinity", num |-> 1, den |-> 1]
        ELSE [kind |-> "-Infinity", num |-> -1, den |-> 1]

\* if (Math.abs(change_percent) < 1) STABLE else if (change_percent > 0) RISING
\* else FALLING; every comparison with NaN is false.
trendDirection(cp) ==
    IF cp.kind = "finite" /\ Abs(cp.num) < cp.den THEN "STABLE"
    ELSE IF cp.kind # "NaN" /\ cp.num > 0 THEN "RISING"
    ELSE "FALLING"

\* Math.round(change_percent * 100) / 100, in 1/100 percent.
roundedPercent(cp) ==
    IF cp.kind = "finite" THEN [kind |-> "finite", value |-> RoundDiv(cp.num * 100, cp.den)]
    ELSE [kind |-> cp.kind, value |-> 0]

\* x.toFixed(1), in 1/10 percent: nearest, halves away from zero.
toFixed1(cp) ==
    IF cp.kind # "finite" THEN [kind |-> cp.kind, value |-> 0]
    ELSE [kind |-> "finite",
          value |-> IF cp.num >= 0 THEN RoundDiv(cp.num * 10, cp.den)
                    ELSE -RoundDiv((-cp.num) * 10, cp.den)]

\* The recommendation template of a direction and the percentage it prints.
trendRecommendation(direction, cp, mandiName) ==
    IF direction = "STABLE"
    THEN [template |-> "Prices stable. No urgency to sell.", mandi_name |-> mandiName,
          percent |-> toFixed1([cp EXCEPT !.num = Abs(cp.num)])]
    ELSE IF direction = "RISING"
    THEN [template |-> "Prices rising. Consider waiting 2-3 days for better rates.",
          mandi_name |-> mandiName, percent |-> toFixed1(cp)]
    ELSE [template |-> "Prices falling. Sell immediately to avoid further loss.",
          mandi_name |-> mandiName, percent |-> toFixed1(cp)]

\* Mutant: a history of a single point is taken for an empty one.
getPriceTrendNeedsTwo(d, cropName, mandiId) ==
    LET mandi == mandiById(mandiId)
        prices_7day == trendRows(d, mandiId, cropName)
    IN  IF mandi = {} THEN Null
        ELSE IF Len(prices_7day) <= 1 THEN Null
        ELSE LET cp == changePercent(prices_7day[1], prices_7day[Len(prices_7day)])
             IN  [kind |-> "result", mandi_id |-> mandiId,
                  mandi_name |-> (CHOOSE m \in mandi : TRUE).name,
                  crop_name |-> cropName, prices_7day |-> prices_7day,
                  first_price |-> prices_7day[1],
                  last_price |-> prices_7day[Len(prices_7day)],
                  change_percent |-> roundedPercent(cp),
                  direction |-> trendDirection(cp),
                  recommendation |->
                      trendRecommendation(trendDirection(cp), cp,
                                          (CHOOSE m \in mandi : TRUE).name)]

getPriceTrend(d, cropName, mandiId) ==
    LET mandi == mandiById(mandiId)
        prices_7day == trendRows(d, mandiId, cropName)
    IN  IF mandi = {} THEN Null
        ELSE IF Len(prices_7day) = 0 THEN Null
        ELSE LET first_price == prices_7day[1]
                 last_price == prices_7day[Len(prices_7day)]
                 cp == changePercent(first_price, last_price)
                 direction == trendDirection(cp)
                 mandi_name == (CHOOSE m \in mandi : TRUE).name
             IN  [kind |-> "result", mandi_id |-> mandiId, mandi_name |-> mandi_name,
                  crop_name |-> cropName, prices_7day |-> prices_7day,
                  first_price |-> first_price, last_price |-> last_price,
                  change_percent |-> roundedPercent(cp),
                  direction |-> direction,
                  recommendation |-> trendRecommendation(direction, cp, mandi_name)]

\* Mandi ids a request may name: the mandis of the table and an unknown one.
UnknownMandiId == 0

TrendRequests ==
    [tool : {"get_price_trend"}, crop : Crops, mandi_id : MandiIds \cup {UnknownMandiId}]

\* A get_price_trend call arrives.
CallGetPriceTrend ==
    /\ req = NoReq
    /\ \E r \in TrendRequests : req' = r
    /\ res' = NoRes
    /\ UNCHANGED db

\* The get_price_trend tool handler: result or the error text.
HandleGetPriceTrend ==
    /\ req.tool = "get_price_trend"
    /\ LET result == getPriceTrend(db, req.crop, req.mandi_id)
       IN  res' = [tool |-> "get_price_trend", args |-> req,
                   error |-> (result = Null), body |-> result]
    /\ req' = NoReq
    /\ UNCHANGED db

InitTrend ==
    /\ db \in TrendDbs
    /\ req = NoReq
    /\ res = NoRes

NextTrend == CallGetPriceTrend \/ HandleGetPriceTrend

SpecTrend == InitTrend /\ [][NextTrend]_vars

(***************************************************************************)
(* Claims about getPriceTrend (checked under SpecTrend)                    *)
(***************************************************************************)

TrendDone == res.tool = "get_price_trend"
TrendOk == TrendDone /\ ~res.error

\* The stored history of the requested pair, oldest first.
HistoryOf(a) ==
    LET rows == { r \in db.price_trends :
                    r.mandi_id = a.mandi_id /\ r.crop_name = a.crop }
    IN  [i \in 1..Cardinality(rows) |-> (CHOOSE r \in rows : r.day_offset = i - 1).price]

\* C9: for every non-empty history the direction is STABLE if
\* |percent_change| < 1, else RISING if percent_change is positive and FALLING
\* if it is negative, percent_change being (last - first) / first x 100 of the
\* oldest and newest points.
C9_TrendBanding ==
    TrendOk =>
        LET h == HistoryOf(res.args)
            first == h[1]
            last == h[Len(h)]
            dir == res.body.direction
        IN  /\ res.body.first_price = first
            /\ res.body.last_price = last
            /\ first > 0 =>
                   /\ dir = (IF 100 * Abs(last - first) < first THEN "STABLE"
                             ELSE IF last > first THEN "RISING" ELSE "FALLING")
                   /\ res.body.change_percent =
                          [kind |-> "finite",
                           value |-> RoundDiv(10000 * (last - first), first)]
            /\ dir = "RISING" => last > first
            /\ dir = "FALLING" => last < first
            /\ dir = "STABLE" => (first > 0 /\ 100 * Abs(last - first) < first)

\* C10: getPriceTrend returns NOT_FOUND when the history of the requested
\* (market, commodity) is empty and a trend result for every non-empty one.
C10_NotFoundIffEmptyHistory ==
    TrendDone =>
        /\ Len(HistoryOf(res.args)) = 0 => (res.error /\ res.body = Null)
        /\ Len(HistoryOf(res.args)) > 0 =>
               /\ ~res.error
               /\ res.body.kind = "result"
               /\ res.body.prices_7day = HistoryOf(res.args)
               /\ res.body.direction \in {"RISING", "FALLING", "STABLE"}

\* NOT_FOUND for a mandi of the table and a commodity whose history is empty.
C10_Witness ==
    /\ TrendDone
    /\ res.error
    /\ res.args.mandi_id \in MandiIds
    /\ res.args.crop = "rice"
    /\ db.price_trends = {}

(***************************************************************************)
(* agri-price-prediction: predictWPIIndex (forecaster)                     *)
(*                                                                         *)
(* A series is a sequence of wpi_index values in 1/10 index point (the     *)
(* data source delivers one decimal), all > 0.                             *)
(***************************************************************************)

MinHistory == 7

\* regression.linear(points) over x = 0..n-1 with the library's precision of
\* 2 decimals: equation = [gradient, intercept] in 1/100.
linearRegression(ys) ==
    LET n == Len(ys)
        sumX[k \in 0..n]  == IF k = 0 THEN 0 ELSE sumX[k - 1] + (k - 1)
        sumY[k \in 0..n]  == IF k = 0 THEN 0 ELSE sumY[k - 1] + ys[k]
        sumXX[k \in 0..n] == IF k = 0 THEN 0 ELSE sumXX[k - 1] + (k - 1) * (k - 1)
        sumXY[k \in 0..n] == IF k = 0 THEN 0 ELSE sumXY[k - 1] + (k - 1) * ys[k]
        run  == n * sumXX[n] - sumX[n] * sumX[n]
        rise == n * sumXY[n] - sumX[n] * sumY[n]
        gradient == IF run = 0 THEN 0 ELSE RoundDiv(10 * rise, run)
        intercept == RoundDiv(10 * sumY[n] - gradient * sumX[n], n)
    IN  [gradient |-> gradient, intercept |-> intercept]

\* Mutant: the sample variance, dividing by n - 1.
calculateVarianceSample(values) ==
    LET n == Len(values)
        sum[k \in 0..n] == IF k = 0 THEN 0 ELSE sum[k - 1] + values[k]
        sq[k \in 0..n] ==
            IF k = 0 THEN 0
            ELSE sq[k - 1] + (n * values[k] - sum[n]) * (n * values[k] - sum[n])
    IN  IF n < 2 THEN [num |-> 0, den |-> 1]
        ELSE [num |-> sq[n], den |-> 100 * n * n * (n - 1)]

\* calculateVariance: mean of the squared deviations from the mean, as the
\* fraction num / den of squared index points (den > 0).
calculateVariance(values) ==
    LET n == Len(values)
        sum[k \in 0..n] == IF k = 0 THEN 0 ELSE sum[k - 1] + values[k]
        sq[k \in 0..n] ==
            IF k = 0 THEN 0
            ELSE sq[k - 1] + (n * values[k] - sum[n]) * (n * values[k] - sum[n])
    IN  IF n = 0 THEN [num |-> 0, den |-> 1]
        ELSE [num |-> sq[n], den |-> 100 * n * n * n]

HighBelow == 5
MediumBelow == 15

\* variance < 5 ? 'HIGH' : variance < 15 ? 'MEDIUM' : 'LOW'
confidenceOf(variance) ==
    IF variance.num < HighBelow * variance.den THEN "HIGH"
    ELSE IF variance.num < MediumBelow * variance.den THEN "MEDIUM"
    ELSE "LOW"

\* Mutant: the band is open, a change of exactly 1 % is RISING and of exactly
\* -1 % FALLING.
forecastDirectionInclusive(predicted, current) ==
    IF 10 * (predicted - 10 * current) >= current THEN "RISING"
    ELSE IF 10 * (predicted - 10 * current) <= -current THEN "FALLING"
    ELSE "STABLE"

\* percentChange > 1 ? 'RISING' : percentChange < -1 ? 'FALLING' : 'STABLE'
\* for percentChange = (predicted - current) / current * 100, predicted in
\* 1/100 and current in 1/10 index point.
forecastDirection(predicted, current) ==
    IF 10 * (predicted - 10 * current) > current THEN "RISING"
    ELSE IF 10 * (predicted - 10 * current) < -current THEN "FALLING"
    ELSE "STABLE"

\* Mutant: a series of exactly 7 points is refused too.
tooShortInclusive(historicalWPI) == Len(historicalWPI) <= MinHistory

\* historicalWPI.length < 7
tooShort(historicalWPI) == Len(historicalWPI) < MinHistory

predictWPIIndex(historicalWPI, daysAhead) ==
    IF tooShort(historicalWPI)
    THEN [kind |-> "throw",
          message |-> "Need at least 7 days of historical WPI data for prediction"]
    ELSE LET eq == linearRegression(historicalWPI)
             currentIndex == Len(historicalWPI) - 1
             futureIndex == currentIndex + daysAhead
             currentWPI == historicalWPI[currentIndex + 1]
             predictedWPI == eq.gradient * futureIndex + eq.intercept
             variance == calculateVariance(historicalWPI)
         IN  [kind |-> "prediction",
              currentWPI |-> currentWPI,
              predictedWPI |-> RoundDiv(predictedWPI, 10),
              percentChange |-> RoundDiv(1000 * (predictedWPI - 10 * currentWPI), currentWPI),
              confidence |-> confidenceOf(variance),
              trendDirection |-> forecastDirection(predictedWPI, currentWPI),
              variance |-> RoundDiv(100 * variance.num, variance.den)]

\* Mutant: the predicted price is cut to a whole number, not rounded.
applyWPIChangeToPriceTruncated(currentPrice, wpiPercentChange) ==
    (currentPrice * (10000 + wpiPercentChange)) \div 10000

\* Math.round(currentPrice * (1 + wpiPercentChange / 100)), the change in
\* 1/100 percent.
applyWPIChangeToPrice(currentPrice, wpiPercentChange) ==
    RoundDiv(currentPrice * (10000 + wpiPercentChange), 10000)

RatePerQuintalPerWeek == 50
DaysPerWeek == 7

\* Mutant: every started week is charged in full.
calculateStorageCostWholeWeeks(crop, days, quantityQuintals) ==
    [totalCost |-> RatePerQuintalPerWeek * ((days + DaysPerWeek - 1) \div DaysPerWeek)
                       * quantityQuintals,
     ratePerQuintalPerWeek |-> RatePerQuintalPerWeek,
     durationWeeks |-> RoundDiv(days * 10, DaysPerWeek)]

\* Math.round(ratePerQuintalPerWeek * (days / 7) * quantityQuintals)
calculateStorageCost(crop, days, quantityQuintals) ==
    [totalCost |-> RoundDiv(RatePerQuintalPerWeek * days * quantityQuintals, DaysPerWeek),
     ratePerQuintalPerWeek |-> RatePerQuintalPerWeek,
     durationWeeks |-> RoundDiv(days * 10, DaysPerWeek)]

(***************************************************************************)
(* agri-price-prediction: data sources                                     *)
(***************************************************************************)

\* Crops of CROP_TO_WPI_CODE.
SupportedCrops ==
    {"rice", "wheat", "tomato", "onion", "potato", "maize", "cotton", "sugarcane"}

\* Points of a fetched series (the code asks for 90 days).
HistoryDays == 7

\* Index values a point may carry: 120.0, 124.0, 128.0.
WpiValues == {1200, 1240, 1280}

\* fetchMOSPIWPIData(crop, days): any series of the requested length.
WpiSeries(days) == [1..days -> WpiValues]

\* fetchWeatherRisk: rainProb = Math.random() * 100, here whole percents on
\* both sides of the 30 and 60 thresholds.
RainProbabilities == {30, 31, 60, 61}

weatherRiskOf(rainProb) ==
    [rainProbability |-> rainProb,
     riskLevel |-> IF rainProb > 60 THEN "HIGH" ELSE IF rainProb > 30 THEN "MEDIUM" ELSE "LOW",
     description |->
         IF rainProb > 60 THEN "High probability of rain - spoilage risk for stored crops"
         ELSE IF rainProb > 30 THEN "Moderate weather risk"
         ELSE "Favorable weather conditions"]

(***************************************************************************)
(* agri-price-prediction: analyze_profit_scenarios (planner)               *)
(***************************************************************************)

\* Mutant: only CERTAIN and HIGH scenarios are kept.
viableScenariosHighOnly(scenarios) ==
    SelectSeq(scenarios, LAMBDA sc : sc.confidence \in {"CERTAIN", "HIGH"})

\* Mutant: the confidence filter is missing.
viableScenariosUnfiltered(scenarios) == scenarios

\* scenarios.filter(s => s.confidence !== 'LOW')
viableScenarios(scenarios) == SelectSeq(scenarios, LAMBDA sc : sc.confidence # "LOW")

\* Mutant: ">=" for ">", the last maximum wins.
RECURSIVE reduceBestLast(_, _)
reduceBestLast(best, rest) ==
    IF rest = <<>> THEN best
    ELSE reduceBestLast(IF Head(rest).net_profit >= best.net_profit THEN Head(rest) ELSE best,
                        Tail(rest))

\* .reduce((best, curr) => curr.net_profit > best.net_profit ? curr : best)
RECURSIVE reduceBest(_, _)
reduceBest(best, rest) ==
    IF rest = <<>> THEN best
    ELSE reduceBest(IF Head(rest).net_profit > best.net_profit THEN Head(rest) ELSE best,
                    Tail(rest))

\* Mutant: the quantity is left out of sell_now's revenue.
sellNowScenarioPerQuintal(current_market_price, quantity_quintals) ==
    [action |-> <<"Sell immediately at current price">>,
     price_per_quintal |-> current_market_price,
     revenue |-> current_market_price,
     costs |-> 0,
     net_profit |-> current_market_price,
     risk |-> <<"None">>,
     confidence |-> "CERTAIN"]

\* Scenario 1: sell now.
sellNowScenario(current_market_price, quantity_quintals) ==
    [action |-> <<"Sell immediately at current price">>,
     price_per_quintal |-> current_market_price,
     revenue |-> current_market_price * quantity_quintals,
     costs |-> 0,
     net_profit |-> current_market_price * quantity_quintals,
     risk |-> <<"None">>,
     confidence |-> "CERTAIN"]

\* Mutant: a HIGH weather risk is charged as a spoilage cost of 100 per
\* quintal.
waitScenarioSpoilage(days, wpi, predictedPrice, storage, weatherRisk, price, quantity) ==
    LET spoilage == IF weatherRisk.riskLevel = "HIGH" THEN 100 * quantity ELSE 0
    IN  [action |-> <<IF days = 7 THEN "Wait 7 days" ELSE "Wait 14 days",
                      "WPI forecast", wpi.trendDirection>>,
         price_per_quintal |-> predictedPrice,
         revenue |-> predictedPrice * quantity,
         costs |-> storage.totalCost + spoilage,
         net_profit |-> predictedPrice * quantity - storage.totalCost - spoilage,
         profit_vs_now |-> (predictedPrice - price) * quantity - storage.totalCost - spoilage,
         risk |-> IF days = 7
                  THEN (IF weatherRisk.riskLevel = "LOW" THEN <<"Low weather risk">>
                        ELSE <<weatherRisk.riskLevel, "weather risk">>)
                  ELSE <<weatherRisk.riskLevel, "weather risk + longer market uncertainty">>,
         confidence |-> wpi.confidence,
         wpi_change_percent |-> wpi.percentChange]

\* Mutant: the longer horizon is trusted one level less.
waitScenarioHorizonConfidence(days, wpi, predictedPrice, storage, weatherRisk, price, quantity) ==
    [action |-> <<IF days = 7 THEN "Wait 7 days" ELSE "Wait 14 days",
                  "WPI forecast", wpi.trendDirection>>,
     price_per_quintal |-> predictedPrice,
     revenue |-> predictedPrice * quantity,
     costs |-> storage.totalCost,
     net_profit |-> predictedPrice * quantity - storage.totalCost,
     profit_vs_now |-> (predictedPrice - price) * quantity - storage.totalCost,
     risk |-> IF days = 7
              THEN (IF weatherRisk.riskLevel = "LOW" THEN <<"Low weather risk">>
                    ELSE <<weatherRisk.riskLevel, "weather risk">>)
              ELSE <<weatherRisk.riskLevel, "weather risk + longer market uncertainty">>,
     confidence |-> IF days = 7 THEN wpi.confidence
                    ELSE IF wpi.confidence = "HIGH" THEN "MEDIUM" ELSE "LOW",
     wpi_change_percent |-> wpi.percentChange]

\* One waiting scenario.
waitScenario(days, wpi, predictedPrice, storage, weatherRisk, price, quantity) ==
    [action |-> <<IF days = 7 THEN "Wait 7 days" ELSE "Wait 14 days",
                  "WPI forecast", wpi.trendDirection>>,
     price_per_quintal |-> predictedPrice,
     revenue |-> predictedPrice * quantity,
     costs |-> storage.totalCost,
     net_profit |-> predictedPrice * quantity - storage.totalCost,
     profit_vs_now |-> (predictedPrice - price) * quantity - storage.totalCost,
     risk |-> IF days = 7
              THEN (IF weatherRisk.riskLevel = "LOW" THEN <<"Low weather risk">>
                    ELSE <<weatherRisk.riskLevel, "weather risk">>)
              ELSE <<weatherRisk.riskLevel, "weather risk + longer market uncertainty">>,
     confidence |-> wpi.confidence,
     wpi_change_percent |-> wpi.percentChange]

\* The body of the handler's try block, given what the two fetches returned.
analyzeProfitScenarios(crop, quantity_quintals, current_market_price, historicalWPI, weatherRisk) ==
    LET wpi7Day == predictWPIIndex(historicalWPI, 7)
        wpi14Day == predictWPIIndex(historicalWPI, 14)
    IN  IF wpi7Day.kind = "throw" THEN [kind |-> "error", message |-> wpi7Day.message]
        ELSE
        LET predicted7DayPrice ==
                applyWPIChangeToPrice(current_market_price, wpi7Day.percentChange)
            predicted14DayPrice ==
                applyWPIChangeToPrice(current_market_price, wpi14Day.percentChange)
            storage7Day == calculateStorageCost(crop, 7, quantity_quintals)
            storage14Day == calculateStorageCost(crop, 14, quantity_quintals)
            sellNow == sellNowScenario(current_market_price, quantity_quintals)
            wait7Days == waitScenario(7, wpi7Day, predicted7DayPrice, storage7Day,
                                      weatherRisk, current_market_price, quantity_quintals)
            wait14Days == waitScenario(14, wpi14Day, predicted14DayPrice, storage14Day,
                                       weatherRisk, current_market_price, quantity_quintals)
            scenarios == <<sellNow, wait7Days, wait14Days>>
            viable == viableScenarios(scenarios)
            recommended == reduceBest(Head(viable), Tail(viable))
        IN  [kind |-> "result",
             crop |-> crop,
             quantity_quintals |-> quantity_quintals,
             current_market_price |-> current_market_price,
             scenarios |-> scenarios,
             recommendation |-> recommended.action,
             weather_forecast |-> weatherRisk.description]

\* Arguments of analyze_profit_scenarios.
PlanCrops == {"rice", "ragi"}
Quantities == {0, 1, 10}
MarketPrices == {1000, 3200}

PlanRequests ==
    [tool : {"analyze_profit_scenarios"}, crop : PlanCrops,
     quantity_quintals : Quantities, current_market_price : MarketPrices]

\* An analyze_profit_scenarios call arrives.
CallAnalyzeProfitScenarios ==
    /\ req = NoReq
    /\ \E r \in PlanRequests : req' = r
    /\ res' = NoRes
    /\ UNCHANGED db

\* What the handler got from its two data sources, kept with the response.
NothingFetched == [historicalWPI |-> <<>>, rainProb |-> -1]

\* The handler: fetchMOSPIWPIData throws for a crop without WPI code, else
\* delivers a series; fetchWeatherRisk delivers a risk; a throw becomes the
\* error response of the catch block.
HandleAnalyzeProfitScenarios ==
    /\ req.tool = "analyze_profit_scenarios"
    /\ \/ /\ req.crop \notin SupportedCrops
          /\ res' = [tool |-> "analyze_profit_scenarios", args |-> req, error |-> TRUE,
                     body |-> [kind |-> "error", message |-> "No WPI data available for crop"],
                     fetched |-> NothingFetched]
       \/ /\ req.crop \in SupportedCrops
          /\ \E historicalWPI \in WpiSeries(HistoryDays), rainProb \in RainProbabilities :
                LET result == analyzeProfitScenarios(req.crop, req.quantity_quintals,
                                  req.current_market_price, historicalWPI,
                                  weatherRiskOf(rainProb))
                IN  res' = [tool |-> "analyze_profit_scenarios", args |-> req,
                            error |-> (result.kind = "error"), body |-> result,
                            fetched |-> [historicalWPI |-> historicalWPI,
                                         rainProb |-> rainProb]]
    /\ req' = NoReq
    /\ UNCHANGED db

InitPlanner ==
    /\ db = EmptyDb
    /\ req = NoReq
    /\ res = NoRes

NextPlanner == CallAnalyzeProfitScenarios \/ HandleAnalyzeProfitScenarios

SpecPlanner == InitPlanner /\ [][NextPlanner]_vars

(***************************************************************************)
(* Claims about analyze_profit_scenarios (checked under SpecPlanner)       *)
(***************************************************************************)

PlanDone == res.tool = "analyze_profit_scenarios"
PlanOk == PlanDone /\ ~res.error

\* Positions of the scenarios whose confidence is not LOW.
Eligible == { i \in DOMAIN res.body.scenarios : res.body.scenarios[i].confidence # "LOW" }

\* C1: the scenario chosen as the recommendation has confidence in
\* {CERTAIN, MEDIUM, HIGH}; a LOW scenario is never the recommendation, even
\* when it has the greatest net_profit.
C1_RecommendedNeverLow ==
    PlanOk =>
        /\ \E i \in DOMAIN res.body.scenarios :
               res.body.scenarios[i].action = res.body.recommendation
        /\ \A i \in DOMAIN res.body.scenarios :
               res.body.scenarios[i].action = res.body.recommendation
                   => res.body.scenarios[i].confidence \in {"CERTAIN", "MEDIUM", "HIGH"}

\* A plan in which a LOW scenario has the greatest net_profit of the three
\* and sell_now is recommended.
C1_Witness ==
    /\ PlanOk
    /\ \E i \in DOMAIN res.body.scenarios :
           /\ res.body.scenarios[i].confidence = "LOW"
           /\ \A j \in DOMAIN res.body.scenarios :
                  j # i => res.body.scenarios[j].net_profit < res.body.scenarios[i].net_profit
    /\ res.body.recommendation = res.body.scenarios[1].action

\* C2: the recommendation is the scenario of greatest net_profit among those
\* whose confidence is not LOW; sell_now is always among them; of several
\* with the greatest net_profit the first in the order sell_now, wait_7,
\* wait_14 is recommended.
C2_GreatestEligibleFirstWins ==
    PlanOk =>
        LET sc == res.body.scenarios
        IN  /\ Len(sc) = 3
            /\ sc[1].action = <<"Sell immediately at current price">>
            /\ sc[2].action[1] = "Wait 7 days"
            /\ sc[3].action[1] = "Wait 14 days"
            /\ 1 \in Eligible
            /\ \E i \in Eligible :
                   /\ res.body.recommendation = sc[i].action
                   /\ \A j \in Eligible : sc[j].net_profit <= sc[i].net_profit
                   /\ \A j \in Eligible : j < i => sc[j].net_profit < sc[i].net_profit

\* Two waiting scenarios, both eligible, tie on a net_profit greater than
\* sell_now's for a quantity above 0, and wait_7 is recommended.
C2_Witness ==
    /\ PlanOk
    /\ res.args.quantity_quintals > 0
    /\ Eligible = {1, 2, 3}
    /\ res.body.scenarios[2].net_profit = res.body.scenarios[3].net_profit
    /\ res.body.scenarios[2].net_profit > res.body.scenarios[1].net_profit
    /\ res.body.recommendation = res.body.scenarios[2].action

(***************************************************************************)
(* Claims about comparePrices (checked under SpecCompare)                  *)
(***************************************************************************)

CompareDone == res.tool = "compare_prices"
CompareOk == CompareDone /\ ~res.error

\* Mandis carrying a quote for the crop in mandi_prices.
QuotedIds(crop) ==
    { db.mandi_prices[i].mandi_id :
        i \in { j \in DOMAIN db.mandi_prices : db.mandi_prices[j].crop_name = crop } }

\* Row position of a mandi's quote in mandi_prices.
InputPos(id) == CHOOSE k \in DOMAIN db.mandi_prices : db.mandi_prices[k].mandi_id = id

\* Distance of a mandi from the seller, in metres and as reported (1/100 km).
MetresTo(id, farmer) == rawDistance(MandiRow(id), farmer.lat, farmer.lon)
ReportedKm(id, farmer) == RoundDiv(MetresTo(id, farmer), 10)

ResultIds == { res.body.mandis[i].mandi_id : i \in DOMAIN res.body.mandis }

\* C3: whenever comparePrices returns a result, its market list is sorted by
\* net_price descending: net_price[i] >= net_price[i+1] for adjacent pairs.
C3_SortedByNetPriceDesc ==
    CompareOk =>
        \A i \in 1..(Len(res.body.mandis) - 1) :
            res.body.mandis[i].net_price >= res.body.mandis[i + 1].net_price

\* A result of three markets, strictly ordered, that the database holds in
\* another order.
C3_Witness ==
    /\ CompareOk
    /\ Len(res.body.mandis) >= 3
    /\ res.body.mandis[1].net_price > res.body.mandis[2].net_price
    /\ res.body.mandis[2].net_price > res.body.mandis[3].net_price
    /\ InputPos(res.body.mandis[1].mandi_id) > InputPos(res.body.mandis[3].mandi_id)

\* C4: comparePrices returns NOT_FOUND exactly when the commodity has no
\* support-price record, or no market quotes it, or a supplied radius leaves
\* no quoted market (reported distance above the radius for all of them);
\* otherwise it returns a non-empty market list.
C4_NotFoundIff ==
    CompareDone =>
        LET a == res.args
            noSupportPrice == \A r \in db.crop_msp : r.crop_name # a.crop
            noQuote == QuotedIds(a.crop) = {}
            radiusExcludesAll ==
                /\ a.radius_km # <<>>
                /\ \A id \in QuotedIds(a.crop) :
                       ReportedKm(id, a.farmer) > a.radius_km[1] * 100
        IN  /\ res.error <=> (noSupportPrice \/ noQuote \/ radiusExcludesAll)
            /\ ~res.error => Len(res.body.mandis) > 0

\* NOT_FOUND for a commodity with a support price and quotes: the radius, 0,
\* excluded every quoted market.
C4_Witness ==
    /\ CompareDone
    /\ res.error
    /\ res.args.radius_km = <<0>>
    /\ \E r \in db.crop_msp : r.crop_name = res.args.crop
    /\ QuotedIds(res.args.crop) # {}

\* C5 as stated: with a radius the result holds exactly the quoted markets
\* whose distance from the seller is <= radius_km, each reported with
\* distance_km <= radius_km; without one it holds every quoted market.
C5_ExactlyWithinTrueDistance ==
    CompareOk =>
        LET a == res.args
        IN  IF a.radius_km = <<>>
            THEN ResultIds = QuotedIds(a.crop)
            ELSE /\ ResultIds = { id \in QuotedIds(a.crop) :
                                    MetresTo(id, a.farmer) <= a.radius_km[1] * 1000 }
                 /\ \A i \in DOMAIN res.body.mandis :
                        res.body.mandis[i].distance_km <= a.radius_km[1] * 100

\* C5 amended: with a radius (0 included) the result holds exactly the quoted
\* markets whose distance rounded to 2 decimals, the reported distance_km, is
\* <= radius_km; without one it holds every quoted market.
C5_ExactlyWithinReportedDistance ==
    CompareOk =>
        LET a == res.args
        IN  /\ Len(res.body.mandis) = Cardinality(ResultIds)
            /\ IF a.radius_km = <<>>
               THEN ResultIds = QuotedIds(a.crop)
               ELSE /\ ResultIds = { id \in QuotedIds(a.crop) :
                                       ReportedKm(id, a.farmer) <= a.radius_km[1] * 100 }
                    /\ \A i \in DOMAIN res.body.mandis :
                           /\ res.body.mandis[i].distance_km <= a.radius_km[1] * 100
                           /\ res.body.mandis[i].distance_km =
                                  ReportedKm(res.body.mandis[i].mandi_id, a.farmer)

\* A radius that keeps a market lying further away than the radius (10.004 km
\* reported as 10.00 km) and drops another quoted market.
C5_Witness ==
    /\ CompareOk
    /\ res.args.radius_km # <<>>
    /\ \E id \in ResultIds :
           /\ MetresTo(id, res.args.farmer) > res.args.radius_km[1] * 1000
           /\ ReportedKm(id, res.args.farmer) = res.args.radius_km[1] * 100
    /\ QuotedIds(res.args.crop) \ ResultIds # {}

\* C6: for every market of a result, transport_cost = distance x the
\* configured rate per km (12 only when no rate is configured) and net_price =
\* quote - reported transport_cost.
C6_ConfiguredRateApplied ==
    CompareOk =>
        LET rate == IF db.market_config = <<>> THEN DefaultTransportCostPerKm
                    ELSE db.market_config[1]
        IN  \A i \in DOMAIN res.body.mandis :
                LET m == res.body.mandis[i]
                IN  /\ m.transport_cost =
                           RoundDiv(MetresTo(m.mandi_id, res.args.farmer) * rate, 10)
                    /\ m.net_price = m.current_price * 100 - m.transport_cost

\* C7: the recommendation advises selling at best_market exactly when
\* best_market.net_price >= the support price, else warns that the best net
\* price is below the support price; both name best_market.
C7_TwoBranchRecommendation ==
    CompareOk =>
        LET b == res.body.best_mandi
            r == res.body.recommendation
            msp == (CHOOSE c \in db.crop_msp : c.crop_name = res.args.crop).msp_price
        IN  /\ r.mandi_name = MandiRow(b.mandi_id).name
            /\ r.net_price = b.net_price
            /\ r.advice \in {"SELL_AT", "BELOW_MSP_CLAIM_SUPPORT"}
            /\ r.advice = "SELL_AT" <=> b.net_price >= msp * 100
            /\ r.advice = "BELOW_MSP_CLAIM_SUPPORT" <=> b.net_price < msp * 100

\* The warning branch taken for a market whose quote is above the support
\* price and whose net price is below it.
C7_Witness ==
    /\ CompareOk
    /\ res.body.recommendation.advice = "BELOW_MSP_CLAIM_SUPPORT"
    /\ res.body.best_mandi.current_price > res.body.recommendation.msp
    /\ Len(res.body.mandis) >= 2

\* C8: best_market is the first element of the sorted list, no returned
\* market has a greater net_price, and markets with equal net_price keep
\* their input order.
C8_BestIsFirstAndStable ==
    CompareOk =>
        LET ms == res.body.mandis
        IN  /\ res.body.best_mandi = ms[1]
            /\ \A i \in DOMAIN ms : ms[i].net_price <= res.body.best_mandi.net_price
            /\ \A i, j \in DOMAIN ms :
                   (i < j /\ ms[i].net_price = ms[j].net_price)
                       => InputPos(ms[i].mandi_id) < InputPos(ms[j].mandi_id)

\* Two markets tie on the greatest net_price, a third follows, and the tied
\* pair stands in input order with the higher mandi id first.
C8_Witness ==
    /\ CompareOk
    /\ Len(res.body.mandis) >= 3
    /\ res.body.mandis[1].net_price = res.body.mandis[2].net_price
    /\ res.body.mandis[1].mandi_id > res.body.mandis[2].mandi_id
    /\ res.body.mandis[3].net_price < res.body.mandis[2].net_price

(***************************************************************************)
(* agri-price-prediction: predictWPIIndex applied to a supplied series     *)
(***************************************************************************)

\* Longest series supplied.
MaxSeries == 7

\* Index values of a supplied point: 120.0, 123.5, 127.0, 130.0.
ForecastValues == {1200, 1235, 1270, 1300}

\* days_ahead of the predict_wpi_index schema.
DaysAheadValues == {7, 14, 30}

ForecastSeries == UNION { [1..n -> ForecastValues] : n \in 0..MaxSeries }

ForecastRequests ==
    [tool : {"predictWPIIndex"}, historicalWPI : ForecastSeries, daysAhead : DaysAheadValues]

\* predictWPIIndex returns a prediction or throws.
HandlePredictWPIIndex ==
    /\ req.tool = "predictWPIIndex"
    /\ LET prediction == predictWPIIndex(req.historicalWPI, req.daysAhead)
       IN  res' = [tool |-> "predictWPIIndex", args |-> req,
                   error |-> (prediction.kind = "throw"), body |-> prediction]
    /\ req' = NoReq
    /\ UNCHANGED db

\* The caller supplies any series and horizon.
InitForecast ==
    /\ db = EmptyDb
    /\ req \in ForecastRequests
    /\ res = NoRes

NextForecast == HandlePredictWPIIndex

SpecForecast == InitForecast /\ [][NextForecast]_vars

(***************************************************************************)
(* Claims about predictWPIIndex (checked under SpecForecast)               *)
(***************************************************************************)

ForecastDone == res.tool = "predictWPIIndex"
ForecastOk == ForecastDone /\ ~res.error

\* C11: the forecaster fails (insufficient data) for every series of fewer
\* than 7 points, whatever days_ahead is, and returns a forecast result with
\* all six fields for every series of 7 or more points.
C11_FailsIffFewerThanSeven ==
    ForecastDone =>
        /\ res.error <=> Len(res.args.historicalWPI) < 7
        /\ res.error =>
               /\ res.body.kind = "throw"
               /\ res.body.message = "Need at least 7 days of historical WPI data for prediction"
        /\ ~res.error =>
               /\ res.body.kind = "prediction"
               /\ DOMAIN res.body = {"kind", "currentWPI", "predictedWPI", "percentChange",
                                     "confidence", "trendDirection", "variance"}
               /\ res.body.confidence \in {"HIGH", "MEDIUM", "LOW"}
               /\ res.body.trendDirection \in {"RISING", "FALLING", "STABLE"}

\* A series of 6 points has failed for the horizon 30.
C11_Witness ==
    /\ ForecastDone
    /\ Len(res.args.historicalWPI) = 6
    /\ res.args.daysAhead = 30
    /\ res.error

\* Sum of the values and of their squares (values in 1/10 index point).
SumOf(ys) ==
    LET acc[k \in 0..Len(ys)] == IF k = 0 THEN 0 ELSE acc[k - 1] + ys[k]
    IN  acc[Len(ys)]

SumSqOf(ys) ==
    LET acc[k \in 0..Len(ys)] == IF k = 0 THEN 0 ELSE acc[k - 1] + ys[k] * ys[k]
    IN  acc[Len(ys)]

\* n * n times the population variance of ys, in 1/100 squared index point:
\* variance = E[y^2] - E[y]^2.
ScaledPopulationVariance(ys) == Len(ys) * SumSqOf(ys) - SumOf(ys) * SumOf(ys)

\* C12: the reported variance is the population variance of the observed
\* values rounded to 2 decimals, and the confidence is HIGH for a population
\* variance < 5, MEDIUM for 5 <= variance < 15 and LOW for variance >= 15.
C12_PopulationVarianceBands ==
    ForecastOk =>
        LET ys == res.args.historicalWPI
            n == Len(ys)
            v == ScaledPopulationVariance(ys)
        IN  /\ res.body.variance = RoundDiv(v, n * n)
            /\ res.body.confidence = "HIGH" <=> v < 500 * n * n
            /\ res.body.confidence = "MEDIUM" <=> (500 * n * n <= v /\ v < 1500 * n * n)
            /\ res.body.confidence = "LOW" <=> v >= 1500 * n * n

\* A series whose population variance is exactly 5 has got MEDIUM.
C12_Witness ==
    /\ ForecastOk
    /\ ScaledPopulationVariance(res.args.historicalWPI)
           = 500 * Len(res.args.historicalWPI) * Len(res.args.historicalWPI)
    /\ res.body.variance = 500
    /\ res.body.confidence = "MEDIUM"

\* A series of population variance >= 15 has got LOW.
C12_WitnessLow ==
    /\ ForecastOk
    /\ res.body.variance >= 1500
    /\ res.body.confidence = "LOW"

\* The value the fitted line takes days_ahead positions after the last
\* point, in 1/100 index point, before it is rounded for the result.
ProjectedValue(ys, daysAhead) ==
    linearRegression(ys).gradient * (Len(ys) - 1 + daysAhead) + linearRegression(ys).intercept

\* percent_change = (predicted - current) / current * 100 as the fraction
\* PercentNum / PercentDen (PercentDen > 0).
PercentNum(ys, daysAhead) == 100 * (ProjectedValue(ys, daysAhead) - 10 * ys[Len(ys)])
PercentDen(ys) == 10 * ys[Len(ys)]

\* C13: the direction is RISING if percent_change > 1, FALLING if
\* percent_change < -1 and STABLE otherwise, a change of exactly 1 or -1
\* being STABLE, for percent_change = (predicted - current) / current * 100.
C13_DirectionBands ==
    ForecastOk =>
        LET num == PercentNum(res.args.historicalWPI, res.args.daysAhead)
            den == PercentDen(res.args.historicalWPI)
        IN  /\ res.body.currentWPI = res.args.historicalWPI[Len(res.args.historicalWPI)]
            /\ res.body.percentChange = RoundDiv(100 * num, den)
            /\ res.body.trendDirection = "RISING" <=> num > den
            /\ res.body.trendDirection = "FALLING" <=> num < -den
            /\ res.body.trendDirection = "STABLE" <=> (-den <= num /\ num <= den)

\* A forecast whose change is exactly 1 % or exactly -1 % is STABLE.
C13_Witness ==
    /\ ForecastOk
    /\ Abs(PercentNum(res.args.historicalWPI, res.args.daysAhead))
           = PercentDen(res.args.historicalWPI)
    /\ res.body.trendDirection = "STABLE"

\* Sums over the x-positions 0..n-1 of a series.
SumX(n) == (n * (n - 1)) \div 2
SumXX(n) == ((n - 1) * n * (2 * n - 1)) \div 6

SumXYOf(ys) ==
    LET acc[k \in 0..Len(ys)] == IF k = 0 THEN 0 ELSE acc[k - 1] + (k - 1) * ys[k]
    IN  acc[Len(ys)]

\* The ordinary least-squares line through (0, ys[1]), ..., (n-1, ys[n])
\* taken at x, in 1/10 index point, as the fraction LeastSquaresNum /
\* LeastSquaresDen: mean(y) + slope * (x - mean(x)), slope = rise / run.
LeastSquaresDen(ys) == Len(ys) * (Len(ys) * SumXX(Len(ys)) - SumX(Len(ys)) * SumX(Len(ys)))

LeastSquaresNum(ys, x) ==
    LET n == Len(ys)
        run == n * SumXX(n) - SumX(n) * SumX(n)
        rise == n * SumXYOf(ys) - SumX(n) * SumOf(ys)
    IN  SumOf(ys) * run + rise * (n * x - SumX(n))

IsConstant(ys) == \A i \in DOMAIN ys : ys[i] = ys[1]

\* C14: for n >= 7 points the forecaster fits the ordinary least-squares
\* line over the x-positions 0..n-1, takes the last observed value as the
\* current value and returns the line's value at n-1+days_ahead rounded to 1
\* decimal; for a constant series of value v > 0 it returns predicted v,
\* change 0, STABLE, variance 0 and HIGH for every days_ahead.
C14_LeastSquaresProjection ==
    ForecastOk =>
        LET ys == res.args.historicalWPI
            n == Len(ys)
        IN  /\ res.body.currentWPI = ys[n]
            /\ 10 * res.body.predictedWPI
                   = 10 * RoundDiv(LeastSquaresNum(ys, n - 1 + res.args.daysAhead),
                                   LeastSquaresDen(ys))
            /\ IsConstant(ys) =>
                   /\ res.body.predictedWPI = ys[1]
                   /\ res.body.percentChange = 0
                   /\ res.body.trendDirection = "STABLE"
                   /\ res.body.variance = 0
                   /\ res.body.confidence = "HIGH"

(***************************************************************************)
(* Further claims about analyze_profit_scenarios (checked under            *)
(* SpecPlanner)                                                            *)
(***************************************************************************)

\* The forecast of the fetched series for a horizon.
FetchedForecast(days) == predictWPIIndex(res.fetched.historicalWPI, days)

\* C15: every successful plan holds exactly three scenarios in the order
\* sell_now, wait_7, wait_14, and sell_now has revenue = current_price x
\* quantity, costs 0, net_profit = revenue, confidence CERTAIN, risk "None".
C15_ThreeScenariosSellNowCertain ==
    PlanOk =>
        LET sc == res.body.scenarios
        IN  /\ Len(sc) = 3
            /\ sc[1].action = <<"Sell immediately at current price">>
            /\ sc[2].action[1] = "Wait 7 days"
            /\ sc[3].action[1] = "Wait 14 days"
            /\ sc[1].price_per_quintal = res.args.current_market_price
            /\ sc[1].revenue = res.args.current_market_price * res.args.quantity_quintals
            /\ sc[1].costs = 0
            /\ sc[1].net_profit = sc[1].revenue
            /\ sc[1].confidence = "CERTAIN"
            /\ sc[1].risk = <<"None">>

\* A plan for 10 quintals at 3200: sell_now brings 32000.
C15_Witness ==
    /\ PlanOk
    /\ res.args.quantity_quintals = 10
    /\ res.args.current_market_price = 3200
    /\ res.body.scenarios[1].net_profit = 32000

\* The scenario position of a waiting horizon.
ScenarioAt(days) == IF days = 7 THEN res.body.scenarios[2] ELSE res.body.scenarios[3]

\* C16: for each horizon d in {7, 14} the scenario's price is current_price x
\* (1 + percent_change_d / 100) rounded to the nearest integer, revenue =
\* price x quantity, costs = the storage cost for d days, net_profit =
\* revenue - costs, profit_vs_now = net_profit - sell_now.net_profit and
\* confidence = the d-day forecast's confidence.
C16_WaitScenarioArithmetic ==
    PlanOk =>
        \A d \in {7, 14} :
            LET w == ScenarioAt(d)
                f == FetchedForecast(d)
                p == res.args.current_market_price
                q == res.args.quantity_quintals
            IN  /\ 2 * 10000 * w.price_per_quintal <= 2 * p * (10000 + f.percentChange) + 10000
                /\ 2 * 10000 * w.price_per_quintal > 2 * p * (10000 + f.percentChange) - 10000
                /\ w.revenue = w.price_per_quintal * q
                /\ w.costs = RoundDiv(50 * d * q, 7)
                /\ w.net_profit = w.revenue - w.costs
                /\ w.profit_vs_now = w.net_profit - res.body.scenarios[1].net_profit
                /\ w.confidence = f.confidence
                /\ w.wpi_change_percent = f.percentChange

\* A waiting scenario for 10 quintals whose exact price has a fraction of a
\* half or more and was rounded up.
C16_Witness ==
    /\ PlanOk
    /\ res.args.quantity_quintals = 10
    /\ \E d \in {7, 14} :
           /\ 2 * ((res.args.current_market_price
                      * (10000 + FetchedForecast(d).percentChange)) % 10000) >= 10000
           /\ ScenarioAt(d).costs > 0
           /\ ScenarioAt(d).profit_vs_now > 0

\* The plan computed from the same request and series under another weather.
PlanUnderWeather(rainProb) ==
    analyzeProfitScenarios(res.args.crop, res.args.quantity_quintals,
                           res.args.current_market_price, res.fetched.historicalWPI,
                           weatherRiskOf(rainProb))

\* A scenario without its risk text.
WithoutRisk(sc) == [f \in DOMAIN sc \ {"risk"} |-> sc[f]]

\* C18: for fixed commodity, quantity, price and index series the weather
\* risk changes only the risk text of wait_7 and wait_14 and the echoed
\* weather description; prices, revenues, costs, net profits, profit_vs_now,
\* confidences, sell_now's risk and the recommendation are the same for
\* every weather risk level.
C18_WeatherOnlyAnnotates ==
    PlanOk =>
        \A rainProb \in RainProbabilities :
            LET other == PlanUnderWeather(rainProb)
            IN  /\ other.kind = "result"
                /\ other.recommendation = res.body.recommendation
                /\ other.scenarios[1] = res.body.scenarios[1]
                /\ \A i \in {2, 3} :
                       WithoutRisk(other.scenarios[i]) = WithoutRisk(res.body.scenarios[i])

\* A plan made under HIGH weather risk recommends waiting, and its waiting
\* scenarios carry another risk text than under LOW weather risk.
C18_Witness ==
    /\ PlanOk
    /\ res.fetched.rainProb = 61
    /\ res.args.quantity_quintals = 10
    /\ res.body.recommendation # res.body.scenarios[1].action
    /\ res.body.scenarios[2].risk = <<"HIGH", "weather risk">>
    /\ PlanUnderWeather(30).scenarios[2].risk = <<"Low weather risk">>
    /\ PlanUnderWeather(30).weather_forecast # res.body.weather_forecast

\* C19 as claimed: whenever wait_7's net_profit exceeds sell_now's and
\* wait_7's confidence is not LOW, wait_7 is the recommendation.
C19_Wait7Recommended ==
    PlanOk =>
        LET sc == res.body.scenarios
        IN  (sc[2].net_profit > sc[1].net_profit /\ sc[2].confidence # "LOW")
                => res.body.recommendation = sc[2].action

\* C19 as the code has it: wait_7 is the recommendation whenever its
\* net_profit exceeds sell_now's, its confidence is not LOW, and wait_14 does
\* not have a greater net_profit with a confidence other than LOW.
C19_Wait7RecommendedUnlessWait14Better ==
    PlanOk =>
        LET sc == res.body.scenarios
        IN  ( /\ sc[2].net_profit > sc[1].net_profit
              /\ sc[2].confidence # "LOW"
              /\ ~(sc[3].net_profit > sc[2].net_profit /\ sc[3].confidence # "LOW") )
                => res.body.recommendation = sc[2].action

\* wait_7 of MEDIUM confidence beats sell_now and wait_14 and is recommended.
C19_Witness ==
    /\ PlanOk
    /\ res.body.scenarios[2].confidence = "MEDIUM"
    /\ res.body.scenarios[2].net_profit > res.body.scenarios[1].net_profit
    /\ res.body.scenarios[2].net_profit > res.body.scenarios[3].net_profit
    /\ res.body.recommendation = res.body.scenarios[2].action

(***************************************************************************)
(* agri-price-prediction: calculate_storage_costs                          *)
(***************************************************************************)

\* Longest storage and largest quantity asked for.
MaxStorageDays == 15
MaxStorageQuantity == 10

\* days and quantity_quintals are z.number(): any sign.
StorageRequests ==
    [tool : {"calculate_storage_costs"}, crop : PlanCrops,
     days : (-MaxStorageDays)..MaxStorageDays,
     quantity_quintals : (-MaxStorageQuantity)..MaxStorageQuantity]

\* The handler: calculateStorageCost and the output built from it.
HandleCalculateStorageCosts ==
    /\ req.tool = "calculate_storage_costs"
    /\ LET result == calculateStorageCost(req.crop, req.days, req.quantity_quintals)
       IN  res' = [tool |-> "calculate_storage_costs", args |-> req, error |-> FALSE,
                   body |-> [crop |-> req.crop,
                             days |-> req.days,
                             quantity_quintals |-> req.quantity_quintals,
                             total_cost |-> result.totalCost,
                             rate_per_quintal_per_week |-> result.ratePerQuintalPerWeek,
                             duration_weeks |-> result.durationWeeks]]
    /\ req' = NoReq
    /\ UNCHANGED db

\* A calculate_storage_costs call with any arguments.
InitStorage ==
    /\ db = EmptyDb
    /\ req \in StorageRequests
    /\ res = NoRes

NextStorage == HandleCalculateStorageCosts

SpecStorage == InitStorage /\ [][NextStorage]_vars

StorageDone == res.tool = "calculate_storage_costs"

baseWPI(crop) ==
    CASE crop = "rice" -> 12450
      [] crop = "wheat" -> 11820
      [] crop = "tomato" -> 13280
      [] crop = "onion" -> 12640
      [] crop = "potato" -> 12170
      [] crop = "maize" -> 11690
      [] crop = "cotton" -> 12830
      [] crop = "sugarcane" -> 11950
      [] OTHER -> 12500

\* dailyChange = (Math.random() - 0.5) * 0.8 lies in [-0.40, 0.40); the two
\* ends of the range, in 1/100 index point.
DailyChanges == {-40, 39}

\* generateMockWPIData(crop, days) for the draws dailyChange[1..days]: point
\* k (oldest first) is base + 0.05 k + dailyChange, rounded to 1 decimal.
\* The date strings come from new Date() and are not read by the forecaster.
generateMockWPIData(crop, days, dailyChange) ==
    [k \in 1..days |-> RoundDiv(baseWPI(crop) + 5 * k + dailyChange[k], 10)]

PredictToolRequests ==
    [tool : {"predict_wpi_index"}, crop : PlanCrops, days_ahead : DaysAheadValues]

\* A predict_wpi_index call arrives.
CallPredictWpiIndex ==
    /\ req = NoReq
    /\ \E r \in PredictToolRequests : req' = r
    /\ UNCHANGED <<db, res>>

\* The handler: fetchMOSPIWPIData throws for a crop without WPI code, else
\* returns a freshly generated series, which predictWPIIndex forecasts.
HandlePredictWpiIndex ==
    /\ req.tool = "predict_wpi_index"
    /\ \/ /\ req.crop \notin SupportedCrops
          /\ res' = [tool |-> "predict_wpi_index", args |-> req, error |-> TRUE,
                     body |-> [kind |-> "error", message |-> "No WPI data available for crop"]]
       \/ /\ req.crop \in SupportedCrops
          /\ \E dailyChange \in [1..HistoryDays -> DailyChanges] :
                LET historicalWPI == generateMockWPIData(req.crop, HistoryDays, dailyChange)
                    prediction == predictWPIIndex(historicalWPI, req.days_ahead)
                IN  res' = [tool |-> "predict_wpi_index", args |-> req,
                            error |-> (prediction.kind = "throw"),
                            body |-> IF prediction.kind = "throw"
                                     THEN [kind |-> "error", message |-> prediction.message]
                                     ELSE [kind |-> "result",
                                           crop |-> req.crop,
                                           days_ahead |-> req.days_ahead,
                                           current_wpi |-> prediction.currentWPI,
                                           predicted_wpi |-> prediction.predictedWPI,
                                           percent_change |-> prediction.percentChange,
                                           confidence_score |-> prediction.confidence,
                                           trend_direction |-> prediction.trendDirection,
                                           variance |-> prediction.variance]]
    /\ req' = NoReq
    /\ UNCHANGED db

InitPredictTool ==
    /\ db = EmptyDb
    /\ req = NoReq
    /\ res = NoRes

NextPredictTool == CallPredictWpiIndex \/ HandlePredictWpiIndex

SpecPredictTool == InitPredictTool /\ [][NextPredictTool]_vars

\* C20: determinism: for fixed inputs an operation returns the identical
\* output on every call, here the index forecast: a response to the same
\* crop and days_ahead as the response before it has the same body.
C20_SameCallSameForecast ==
    [][ ( /\ res.tool = "predict_wpi_index"
          /\ res'.tool = "predict_wpi_index"
          /\ res'.args = res.args )
            => res'.body = res.body ]_vars

(***************************************************************************)
(* Claims about input validation, error reporting and label consistency    *)
(***************************************************************************)

\* C21: a call with a negative quantity or a negative number of days is
\* rejected (INVALID_INPUT); the storage-cost calculation never returns a
\* computed cost for such inputs.  (Checked under SpecStorage.)
C21_NegativeInputRejected ==
    StorageDone =>
        ((res.args.days < 0 \/ res.args.quantity_quintals < 0) => res.error)

\* C22: an expected failure condition, here fewer than 7 index points, is
\* reported as an explicit error value returned to the caller, never by
\* throwing.  (Checked under SpecForecast.)
C22_FailureReturnedNotThrown ==
    ForecastDone =>
        (Len(res.args.historicalWPI) < 7 => (res.error /\ res.body.kind # "throw"))

\* C25: for a given series the forecaster returns the same variance and the
\* same confidence for every days_ahead; hence wait_7 and wait_14 carry the
\* same confidence and the scenarios eligible for recommendation are
\* sell_now alone or all three.  (Checked under SpecPlanner.)
C25_ConfidenceSameForAllHorizons ==
    PlanOk =>
        /\ \A d \in DaysAheadValues :
               /\ FetchedForecast(d).variance = FetchedForecast(7).variance
               /\ FetchedForecast(d).confidence = res.body.scenarios[2].confidence
        /\ res.body.scenarios[2].confidence = res.body.scenarios[3].confidence
        /\ Eligible \in {{1}, {1, 2, 3}}

\* Both waiting scenarios are LOW and would each bring more than sell_now,
\* which alone is eligible.
C25_Witness ==
    /\ PlanOk
    /\ Eligible = {1}
    /\ res.body.scenarios[2].net_profit > res.body.scenarios[1].net_profit
    /\ res.body.scenarios[3].net_profit > res.body.scenarios[1].net_profit

\* C26: in every forecast result the direction label is the one the 1 % band
\* assigns to the percent change returned in that result (rounded to 2
\* decimals): STABLE exactly when it lies inside the band, RISING exactly
\* when above, FALLING exactly when below.  (Checked under SpecForecast.)
C26_LabelMatchesReturnedPercent ==
    ForecastOk =>
        /\ res.body.trendDirection = "RISING" <=> res.body.percentChange > 100
        /\ res.body.trendDirection = "FALLING" <=> res.body.percentChange < -100
        /\ res.body.trendDirection = "STABLE" <=>
               (-100 <= res.body.percentChange /\ res.body.percentChange <= 100)

\* C27: for every non-empty history of prices >= 0, a first price of 0
\* included, getPriceTrend reports FALLING only when the last price is
\* strictly lower than the first and RISING only when it is strictly higher.
\* (Checked under SpecTrend.)
C27_FallingOnlyWhenLower ==
    TrendOk =>
        LET h == HistoryOf(res.args)
        IN  /\ res.body.direction = "FALLING" => h[Len(h)] < h[1]
            /\ res.body.direction = "RISING" => h[Len(h)] > h[1]

(***************************************************************************)
(* agri-market: getMandiPrices                                             *)
(***************************************************************************)

\* The orders in which ORDER BY current_price DESC may deliver the rows: every
\* arrangement with non-increasing prices (the order of equal prices is not
\* fixed by the query).
orderedByPriceDesc(rows) ==
    LET n == Len(rows)
        perms == { f \in [1..n -> 1..n] : \A i, j \in 1..n : i # j => f[i] # f[j] }
    IN  { [i \in 1..n |-> rows[f[i]]] : f \in
            { g \in perms : \A i \in 1..n, j \in 1..n :
                i < j => rows[g[i]].current_price >= rows[g[j]].current_price } }

\* Mutant: the spread is related to the highest price.
spreadPercentOfHighest(highest_price, lowest_price) ==
    RoundDiv(10000 * (highest_price - lowest_price), highest_price)

\* Math.round((price_spread / lowest_price) * 100 * 100) / 100, in 1/100
\* percent (lowest_price > 0).
spreadPercent(highest_price, lowest_price) ==
    RoundDiv(10000 * (highest_price - lowest_price), lowest_price)

\* getMandiPrices for the rows as the query delivered them.
getMandiPrices(d, cropName, mandis) ==
    IF cropMsp(d, cropName) = {} THEN Null
    ELSE IF Len(mandis) = 0 THEN Null
    ELSE LET highest_price == mandis[1].current_price
             lowest_price == mandis[Len(mandis)].current_price
         IN  [kind |-> "result",
              crop |-> cropName,
              msp |-> (CHOOSE r \in cropMsp(d, cropName) : TRUE).msp_price,
              mandis |-> mandis,
              highest_price |-> highest_price,
              lowest_price |-> lowest_price,
              price_spread |-> highest_price - lowest_price,
              spread_percent |-> spreadPercent(highest_price, lowest_price)]

MandiPricesRequests == [tool : {"get_mandi_prices"}, crop_name : Crops]

\* A get_mandi_prices call arrives.
CallGetMandiPrices ==
    /\ req = NoReq
    /\ \E r \in MandiPricesRequests : req' = r
    /\ res' = NoRes
    /\ UNCHANGED db

\* The get_mandi_prices tool handler: result or 'Crop not found'.
HandleGetMandiPrices ==
    /\ req.tool = "get_mandi_prices"
    /\ \E mandis \in orderedByPriceDesc(mandiPriceSummary(db, req.crop_name)) :
          LET result == getMandiPrices(db, req.crop_name, mandis)
          IN  res' = [tool |-> "get_mandi_prices", args |-> req,
                      error |-> (result = Null), body |-> result]
    /\ req' = NoReq
    /\ UNCHANGED db

InitMandiPrices ==
    /\ db \in CompareDbs
    /\ req = NoReq
    /\ res = NoRes

NextMandiPrices == CallGetMandiPrices \/ HandleGetMandiPrices

SpecMandiPrices == InitMandiPrices /\ [][NextMandiPrices]_vars

MandiPricesDone == res.tool = "get_mandi_prices"
MandiPricesOk == MandiPricesDone /\ ~res.error

\* The quotes mandi_prices holds for a crop.
QuotesOf(crop) == { db.mandi_prices[i] : i \in { j \in DOMAIN db.mandi_prices :
                                                  db.mandi_prices[j].crop_name = crop } }

\* C23: get_mandi_prices returns the commodity's markets ordered by quote
\* from high to low, highest_price the maximum quote, lowest_price the
\* minimum, price_spread = highest - lowest and spread_percent =
\* price_spread / lowest x 100 rounded to 2 decimals, over all quotes for
\* the commodity, without distance filtering.
C23_SpreadOverAllQuotes ==
    MandiPricesOk =>
        LET quotes == QuotesOf(res.args.crop_name)
            m == res.body.mandis
        IN  /\ { [mandi_id |-> m[i].mandi_id, price |-> m[i].current_price] : i \in DOMAIN m }
                   = { [mandi_id |-> q.mandi_id, price |-> q.current_price] : q \in quotes }
            /\ Len(m) = Cardinality(quotes)
            /\ \A i \in 1..(Len(m) - 1) : m[i].current_price >= m[i + 1].current_price
            /\ \A q \in quotes : q.current_price <= res.body.highest_price
            /\ \A q \in quotes : q.current_price >= res.body.lowest_price
            /\ \E q \in quotes : q.current_price = res.body.highest_price
            /\ \E q \in quotes : q.current_price = res.body.lowest_price
            /\ res.body.price_spread = res.body.highest_price - res.body.lowest_price
            /\ 2 * res.body.lowest_price * res.body.spread_percent
                   <= 2 * 10000 * res.body.price_spread + res.body.lowest_price
            /\ 2 * res.body.lowest_price * res.body.spread_percent
                   > 2 * 10000 * res.body.price_spread - res.body.lowest_price

\* Three quotes, the lowest entered first: spread 80 on 2420, that is 3.31 %.
C23_Witness ==
    /\ MandiPricesOk
    /\ Len(res.body.mandis) = 3
    /\ db.mandi_prices[1].current_price = 2420
    /\ res.body.mandis[1].current_price = 2500
    /\ res.body.price_spread = 80
    /\ res.body.spread_percent = 331

(***************************************************************************)
(* agri-market: database initialisation at server start                    *)
(*                                                                         *)
(* Here db is the database file: the schema objects that exist, the rows   *)
(* of the five market tables (with the AUTOINCREMENT ids) and              *)
(* sqlite_sequence; req is the server process and its position in          *)
(* initialize; res counts what the starts did.                             *)
(***************************************************************************)

\* Server starts followed.
MaxStarts == 3

MarketTables == {"crop_msp", "mandis", "mandi_prices", "price_trends", "market_config"}

\* The objects createSchema creates, in the order of its db.exec calls.
SchemaObjects ==
    <<"crop_msp", "mandis", "mandi_prices", "price_trends", "market_config",
      "mandi_price_summary">>

\* A database file without any object.
FreshFile ==
    [tables |-> {}, crop_msp |-> {}, mandis |-> {}, mandi_prices |-> {},
     price_trends |-> {}, market_config |-> {},
     sequence |-> [mandi_prices |-> 0, price_trends |-> 0]]

\* data/mandi_prices.json as migrateData reads it: crops, mandis, the prices
\* of each mandi, the price histories and the transport rate.
mandiData ==
    [crops |-> <<[crop_name |-> "rice", msp_price |-> 2200]>>,
     mandis |-> <<[id |-> 1, name |-> "Dharwad APMC"], [id |-> 2, name |-> "Hubli APMC"]>>,
     prices |-> <<[mandi_id |-> 1, crop_name |-> "rice", current_price |-> 2420],
                  [mandi_id |-> 2, crop_name |-> "rice", current_price |-> 2500]>>,
     price_trends |-> <<[mandi_id |-> 1, crop_name |-> "rice", day_offset |-> 0, price |-> 3900],
                        [mandi_id |-> 1, crop_name |-> "rice", day_offset |-> 1, price |-> 3939]>>,
     transport_cost_per_km |-> 12]

\* A database left by an earlier deployment: all objects, other rows.
OlderDatabase ==
    [tables |-> {SchemaObjects[i] : i \in DOMAIN SchemaObjects},
     crop_msp |-> {[crop_name |-> "rice", msp_price |-> 2100]},
     mandis |-> {[id |-> 1, name |-> "Dharwad APMC"], [id |-> 3, name |-> "Gadag APMC"]},
     mandi_prices |-> {[id |-> 1, mandi_id |-> 1, crop_name |-> "rice", current_price |-> 2300],
                       [id |-> 2, mandi_id |-> 3, crop_name |-> "rice", current_price |-> 2350]},
     price_trends |-> {[id |-> 1, mandi_id |-> 1, crop_name |-> "rice", day_offset |-> 0,
                        price |-> 3800]},
     market_config |-> {[key |-> "transport_cost_per_km", value |-> 15]},
     sequence |-> [mandi_prices |-> 2, price_trends |-> 1]]

\* The same deployment before it had price_trends and market_config.
OlderPartialDatabase ==
    [OlderDatabase EXCEPT !.tables = {"crop_msp", "mandis", "mandi_prices"},
                          !.price_trends = {}, !.market_config = {},
                          !.sequence = [mandi_prices |-> 2, price_trends |-> 0]]

InitialFiles == {FreshFile, OlderDatabase, OlderPartialDatabase}

\* Mutant: a plain INSERT into a table without the key constraint.
insertKeepingOld(table, row, key) == table \cup {row}

\* INSERT OR REPLACE into a table with a declared key: the row of the same
\* key is deleted, the new row inserted.
insertOrReplace(table, row, key) ==
    { r \in table : \E f \in key : r[f] # row[f] } \cup {row}

\* INSERT OR REPLACE of rows into an AUTOINCREMENT table with a UNIQUE key:
\* each row gets the id after the largest one ever used.
RECURSIVE insertOrReplaceAll(_, _, _, _)
insertOrReplaceAll(table, seq, rows, key) ==
    IF rows = <<>> THEN [table |-> table, seq |-> seq]
    ELSE LET row == [f \in DOMAIN Head(rows) \cup {"id"} |->
                        IF f = "id" THEN seq + 1 ELSE Head(rows)[f]]
         IN  insertOrReplaceAll(insertOrReplace(table, row, key), seq + 1, Tail(rows), key)

RECURSIVE insertOrReplaceKeyed(_, _, _)
insertOrReplaceKeyed(table, rows, key) ==
    IF rows = <<>> THEN table
    ELSE insertOrReplaceKeyed(insertOrReplace(table, Head(rows), key), Tail(rows), key)

\* migrateData: the committed transaction.
migrateData(d) ==
    LET prices == insertOrReplaceAll(d.mandi_prices, d.sequence.mandi_prices,
                                     mandiData.prices, {"mandi_id", "crop_name"})
        trends == insertOrReplaceAll(d.price_trends, d.sequence.price_trends,
                                     mandiData.price_trends,
                                     {"mandi_id", "crop_name", "day_offset"})
    IN  [d EXCEPT
            !.crop_msp = insertOrReplaceKeyed(@, mandiData.crops, {"crop_name"}),
            !.mandis = insertOrReplaceKeyed(@, mandiData.mandis, {"id"}),
            !.mandi_prices = prices.table,
            !.price_trends = trends.table,
            !.market_config =
                insertOrReplace(@, [key |-> "transport_cost_per_km",
                                    value |-> mandiData.transport_cost_per_km], {"key"}),
            !.sequence = [mandi_prices |-> prices.seq, price_trends |-> trends.seq]]

\* Mutant: the view is counted with the tables, so the count is never 5.
alreadyInitializedCountingView(d) == Cardinality(d.tables \cap MarketTables) = 6

\* marketTableCount.cnt === 5
alreadyInitialized(d) == Cardinality(d.tables \cap MarketTables) = 5

Stopped == [tool |-> "server", pc |-> "stopped", next |-> 0]

NoStarts == [tool |-> "initialize", starts |-> 0, returned |-> 0, failed |-> 0]

\* node index.js: the database is opened and initialize called.
StartServer ==
    /\ req.pc = "stopped"
    /\ res.starts < MaxStarts
    /\ req' = [req EXCEPT !.pc = "check"]
    /\ res' = [res EXCEPT !.starts = @ + 1]
    /\ UNCHANGED db

\* initialize: the table count; 5 tables: return at once.
CheckTables ==
    /\ req.pc = "check"
    /\ IF alreadyInitialized(db)
       THEN /\ req' = [req EXCEPT !.pc = "serving"]
            /\ res' = [res EXCEPT !.returned = @ + 1]
       ELSE /\ req' = [req EXCEPT !.pc = "schema", !.next = 1]
            /\ UNCHANGED res
    /\ UNCHANGED db

\* createSchema: one db.exec, CREATE ... IF NOT EXISTS.
CreateSchemaObject ==
    /\ req.pc = "schema"
    /\ db' = [db EXCEPT !.tables = @ \cup {SchemaObjects[req.next]}]
    /\ req' = IF req.next = Len(SchemaObjects)
              THEN [req EXCEPT !.pc = "migrate", !.next = 0]
              ELSE [req EXCEPT !.next = @ + 1]
    /\ UNCHANGED res

\* migrateData commits and initialize returns.
MigrateData ==
    /\ req.pc = "migrate"
    /\ db' = migrateData(db)
    /\ req' = [req EXCEPT !.pc = "serving"]
    /\ res' = [res EXCEPT !.returned = @ + 1]

\* migrateData throws inside the transaction (the data file cannot be read):
\* rollback, the exception leaves initialize and ends the process.
MigrateFails ==
    /\ req.pc = "migrate"
    /\ req' = Stopped
    /\ res' = [res EXCEPT !.failed = @ + 1]
    /\ UNCHANGED db

\* The process ends (shutdown or kill) wherever it stands.
StopServer ==
    /\ req.pc # "stopped"
    /\ req' = Stopped
    /\ UNCHANGED <<db, res>>

InitDatabase ==
    /\ db \in InitialFiles
    /\ req = Stopped
    /\ res = NoStarts

NextDatabase ==
    \/ StartServer
    \/ CheckTables
    \/ CreateSchemaObject
    \/ MigrateData
    \/ MigrateFails
    \/ StopServer

SpecDatabase == InitDatabase /\ [][NextDatabase]_vars

\* The rows of the five market tables, ids included.
MarketRows(d) ==
    [crop_msp |-> d.crop_msp, mandis |-> d.mandis, mandi_prices |-> d.mandi_prices,
     price_trends |-> d.price_trends, market_config |-> d.market_config]

NoDuplicates(table, key) ==
    \A r1, r2 \in table : (\A f \in key : r1[f] = r2[f]) => r1 = r2

NoDuplicateRows ==
    /\ NoDuplicates(db.crop_msp, {"crop_name"})
    /\ NoDuplicates(db.mandis, {"id"})
    /\ NoDuplicates(db.mandi_prices, {"mandi_id", "crop_name"})
    /\ NoDuplicates(db.mandi_prices, {"id"})
    /\ NoDuplicates(db.price_trends, {"mandi_id", "crop_name", "day_offset"})
    /\ NoDuplicates(db.price_trends, {"id"})
    /\ NoDuplicates(db.market_config, {"key"})

\* Some run of initialize has ended, by returning or by throwing.
InitializeEnded == res.returned + res.failed >= 1

\* C24: initialisation is idempotent. Once one run of initialize has ended,
\* no later server start changes any row of the market tables, and at every
\* moment no table holds two rows of one key: at most one quote per
\* (mandi, crop) and one history point per (mandi, crop, day_offset).
C24_InitIdempotent ==
    /\ []NoDuplicateRows
    /\ [][InitializeEnded => MarketRows(db') = MarketRows(db)]_vars

\* Two runs of initialize have returned on a database the first of them
\* loaded over older rows.
C24_Witness ==
    /\ res.returned >= 2
    /\ MarketRows(db) = MarketRows(migrateData(OlderPartialDatabase))
    /\ \E r \in db.mandi_prices : r.mandi_id = 3

AllFiveTablesExist == \A t \in MarketTables : t \in db.tables

MarketTablesEmpty == \A t \in MarketTables : MarketRows(db)[t] = {}

\* C30: initialize changes the database only in a run whose table count was
\* below five: a check that finds all five tables returns with the database
\* as it was, a check that finds fewer goes on to createSchema and the data
\* load, whose commit leaves every object and the reference rows. So once
\* the five tables exist and are empty outside such a run (the load failed
\* before its commit), they stay empty through every later start.
C30_InitializeOnlyBelowFiveTables ==
    /\ [][req.pc = "check" /\ req'.pc # "stopped"
            => IF AllFiveTablesExist THEN req'.pc = "serving" /\ db' = db
               ELSE req'.pc = "schema" /\ db' = db]_vars
    /\ [][db' # db => req.pc \in {"schema", "migrate"}]_vars
    /\ [][req.pc = "migrate" /\ req'.pc = "serving"
            => db' = migrateData(db) /\ AllFiveTablesExist']_vars
    /\ [][AllFiveTablesExist /\ MarketTablesEmpty /\ req.pc \notin {"schema", "migrate"}
            => MarketTablesEmpty']_vars

\* A start created the tables and failed in the data load; a later start
\* has returned from initialize and the tables are empty.
C30_Witness ==
    /\ res.failed >= 1
    /\ res.returned >= 1
    /\ req.pc = "serving"
    /\ AllFiveTablesExist
    /\ MarketTablesEmpty

(***************************************************************************)
(* MCP servers: the sessions map of the HTTP endpoint /mcp                 *)
(*                                                                         *)
(* Here db is the server process: the own keys of the sessions object, the *)
(* number of session ids randomUUID has produced and the ids whose         *)
(* transport was closed; req is the HTTP request last received and res the *)
(* response to it.                                                         *)
(*                                                                         *)
(* The value of the mcp-session-id header is written as an integer: n > 0  *)
(* is the n-th id produced by randomUUID, 0 is a request without the       *)
(* header, and a negative value is a string naming a member of             *)
(* Object.prototype.                                                       *)
(***************************************************************************)

\* Session ids randomUUID produces in a run.
MaxSessions == 3

\* Request without mcp-session-id header: sessionId is undefined.
NoSessionId == 0

\* mcp-session-id: constructor
ConstructorKey == -1

\* Header values naming members of Object.prototype.
ObjectPrototypeKeys == {ConstructorKey}

SessionIdHeaders == (1..MaxSessions) \cup {NoSessionId} \cup ObjectPrototypeKeys

\* sessions[sessionId] on the plain object sessions = {}: the own entry, a
\* member inherited from Object.prototype, or undefined.
sessionsLookup(sessions, sessionId) ==
    IF sessionId \in sessions THEN "session"
    ELSE IF sessionId \in ObjectPrototypeKeys THEN "inherited"
    ELSE "undefined"

\* !sessionId && isInitializeRequest(req.body)
isNewInitialize(r) == r.sessionId = NoSessionId /\ r.initialize

\* accepted: whether the transport accepts the request (Accept and
\* Content-Type headers, JSON-RPC shape).
HttpRequests ==
    [tool : {"mcp"}, method : {"POST", "GET", "DELETE"}, sessionId : SessionIdHeaders,
     initialize : BOOLEAN, accepted : BOOLEAN]

NoHttpRequest ==
    [tool |-> "mcp", method |-> "none", sessionId |-> NoSessionId, initialize |-> FALSE,
     accepted |-> FALSE]

HttpResponse(r, status) == [tool |-> "mcp", args |-> r, status |-> status]

NoHttpResponse == HttpResponse(NoHttpRequest, 0)

ServerStarted == [sessions |-> {}, issued |-> 0, closed |-> {}]

\* transport.handleRequest of a connected transport, by its status.
transportStatus(r) ==
    IF ~r.accepted THEN 406
    ELSE IF r.method = "POST" /\ r.initialize THEN 400
    ELSE 200

\* app.post('/mcp')
HandlePost ==
    \E r \in HttpRequests :
        /\ r.method = "POST"
        /\ isNewInitialize(r) /\ r.accepted => db.issued < MaxSessions
        /\ req' = r
        /\ IF r.sessionId # NoSessionId /\ sessionsLookup(db.sessions, r.sessionId) # "undefined"
           THEN /\ res' = HttpResponse(r,
                            IF sessionsLookup(db.sessions, r.sessionId) = "session"
                            THEN transportStatus(r) ELSE 500)
                /\ UNCHANGED db
           ELSE IF isNewInitialize(r)
           THEN IF r.accepted
                THEN /\ db' = [db EXCEPT !.issued = @ + 1, !.sessions = @ \cup {db.issued + 1}]
                     /\ res' = HttpResponse(r, 200)
                ELSE /\ res' = HttpResponse(r, 406)
                     /\ UNCHANGED db
           ELSE /\ res' = HttpResponse(r, 400)
                /\ UNCHANGED db

\* app.get('/mcp')
HandleGet ==
    \E r \in HttpRequests :
        /\ r.method = "GET"
        /\ ~r.initialize
        /\ req' = r
        /\ res' = HttpResponse(r,
                    IF r.sessionId = NoSessionId
                       \/ sessionsLookup(db.sessions, r.sessionId) = "undefined" THEN 400
                    ELSE IF sessionsLookup(db.sessions, r.sessionId) = "session"
                    THEN transportStatus(r) ELSE 500)
        /\ UNCHANGED db

\* app.delete('/mcp'): the transport closes on an accepted DELETE and its
\* onclose deletes the session.
HandleDelete ==
    \E r \in HttpRequests :
        /\ r.method = "DELETE"
        /\ ~r.initialize
        /\ req' = r
        /\ IF r.sessionId = NoSessionId \/ sessionsLookup(db.sessions, r.sessionId) = "undefined"
           THEN /\ res' = HttpResponse(r, 400)
                /\ UNCHANGED db
           ELSE IF sessionsLookup(db.sessions, r.sessionId) = "inherited"
           THEN /\ res' = HttpResponse(r, 500)
                /\ UNCHANGED db
           ELSE /\ res' = HttpResponse(r, transportStatus(r))
                /\ db' = IF r.accepted
                         THEN [db EXCEPT !.sessions = @ \ {r.sessionId},
                                         !.closed = @ \cup {r.sessionId}]
                         ELSE db

\* SIGINT: every transport is closed and the process exits; the next
\* process starts with an empty sessions object.
Shutdown ==
    /\ db' = [db EXCEPT !.sessions = {}, !.closed = @ \cup db.sessions]
    /\ req' = NoHttpRequest
    /\ res' = NoHttpResponse

InitSessions ==
    /\ db = ServerStarted
    /\ req = NoHttpRequest
    /\ res = NoHttpResponse

NextSessions ==
    \/ HandlePost
    \/ HandleGet
    \/ HandleDelete
    \/ Shutdown

SpecSessions == InitSessions /\ [][NextSessions]_vars

\* The request handled by the step bears a session id.
BearsSessionId == req'.method # "none" /\ req'.sessionId # NoSessionId

\* C28: an id is in the sessions map only from its initialisation to the
\* close of its transport; a request bearing a session id that is not a
\* key of the map is answered 400 and leaves the map as it was, initialize
\* body or not; a POST without session id that is not an initialize
\* request is answered 400; only such a POST with an initialize body adds an
\* id, a new one.
C28_UnknownSessionAnswered400 ==
    /\ [](db.sessions = (1..db.issued) \ db.closed)
    /\ [][BearsSessionId /\ req'.sessionId \notin db.sessions
            => res'.status = 400 /\ db'.sessions = db.sessions]_vars
    /\ [][req'.method = "POST" /\ req'.sessionId = NoSessionId /\ ~req'.initialize
            => res'.status = 400 /\ db'.sessions = db.sessions]_vars
    /\ [][db'.sessions \ db.sessions # {}
            => /\ req'.method = "POST" /\ req'.sessionId = NoSessionId /\ req'.initialize
               /\ db'.sessions \ db.sessions = {db.issued + 1}]_vars

(***************************************************************************)
(* Dashboard: MCPClient.callToolOnServer against one MCP server            *)
(*                                                                         *)
(* Here db holds the server's sessions map (sessions, issued, closed, as   *)
(* above) and the client's cached session id for that server (cache, 0 for *)
(* null or ''); req holds the calls in flight, each an async function that *)
(* stands at one of its awaits; res is the result of the call that         *)
(* returned last.                                                          *)
(***************************************************************************)

\* Tool calls in flight at once (pages/Login.tsx starts several together).
MaxCalls == 2

Calls == 1..MaxCalls

\* A call not in flight.
IdleCall == [pc |-> "idle", sid |-> NoSessionId, cached |-> NoSessionId]

NoCalls == [c \in Calls |-> IdleCall]

NoResult == [tool |-> "callToolOnServer", call |-> 0, sid |-> NoSessionId,
             cached |-> NoSessionId, outcome |-> "none"]

\* Mutant: a failed call clears the cached id.
newSessionIdClearedOnError(sid, outcome) == IF outcome = "error" THEN NoSessionId ELSE sid

\* newSessionId: sid on every return of callToolOnServer.
newSessionId(sid, outcome) == sid

\* A wrapper (analyzeProfitScenarios, getMandiPrices, ...) calls
\* callToolOnServer with the cached id; up to the first await: the
\* initialize request is sent if the id is null or '', the tools/call
\* request otherwise.
BeginCall(c) ==
    /\ req[c].pc = "idle"
    /\ req' = [req EXCEPT ![c] = [pc |-> IF db.cache = NoSessionId THEN "initialize" ELSE "call",
                                  sid |-> db.cache, cached |-> db.cache]]
    /\ UNCHANGED <<db, res>>

\* initializeSession returns: the server has made a session for the
\* initialize request and the tools/call request is sent with its id.
InitializeSession(c) ==
    /\ req[c].pc = "initialize"
    /\ db.issued < MaxSessions
    /\ db' = [db EXCEPT !.issued = @ + 1, !.sessions = @ \cup {db.issued + 1}]
    /\ req' = [req EXCEPT ![c].pc = "call", ![c].sid = db.issued + 1]
    /\ UNCHANGED res

\* initializeSession throws (server unreachable, HTTP error): the call
\* rejects and the wrapper assigns nothing.
InitializeThrows(c) ==
    /\ req[c].pc = "initialize"
    /\ req' = [req EXCEPT ![c] = IdleCall]
    /\ res' = [tool |-> "callToolOnServer", call |-> c, sid |-> NoSessionId,
               cached |-> req[c].cached, outcome |-> "throw"]
    /\ UNCHANGED db

\* The tools/call request is answered and callToolOnServer returns: an
\* unknown session id gets 400, which is caught and returned as an error
\* result; the wrapper caches newSessionId.
CompleteCall(c) ==
    /\ req[c].pc = "call"
    /\ \E outcome \in IF sessionsLookup(db.sessions, req[c].sid) = "session"
                      THEN {"ok", "error"} ELSE {"error"} :
          /\ res' = [tool |-> "callToolOnServer", call |-> c, sid |-> req[c].sid,
                     cached |-> req[c].cached, outcome |-> outcome]
          /\ db' = [db EXCEPT !.cache = newSessionId(req[c].sid, outcome)]
    /\ req' = [req EXCEPT ![c] = IdleCall]

\* The server closes every transport and starts again.
ServerRestart ==
    /\ db.sessions # {}
    /\ db' = [db EXCEPT !.sessions = {}, !.closed = @ \cup db.sessions]
    /\ UNCHANGED <<req, res>>

InitClient ==
    /\ db = [sessions |-> {}, issued |-> 0, closed |-> {}, cache |-> NoSessionId]
    /\ req = NoCalls
    /\ res = NoResult

NextClient ==
    \/ \E c \in Calls : BeginCall(c)
    \/ \E c \in Calls : InitializeSession(c)
    \/ \E c \in Calls : InitializeThrows(c)
    \/ \E c \in Calls : CompleteCall(c)
    \/ ServerRestart

SpecClient == InitClient /\ [][NextClient]_vars

\* The cached id names a session the server no longer has.
CachedSessionDropped == db.cache # NoSessionId /\ db.cache \notin db.sessions

\* Call c begins / returns in the step.
Begins(c) == req[c].pc = "idle" /\ req'[c].pc # "idle"

Returns(c) == req[c].pc # "idle" /\ req'[c].pc = "idle"

\* No call in flight is initialising or carries the id of a live session.
NoLiveCallInFlight ==
    \A c \in Calls : req[c].pc = "idle" \/ (req[c].pc = "call" /\ req[c].sid \notin db.sessions)

\* C29 as stated: a session is initialised only by a call that found the
\* cache empty; once a non-empty id is cached it stays the cached id and
\* every call begun later carries it; once the cached session is dropped,
\* every call returning later returns an error and no session is
\* initialised.
C29_CachedIdReusedForever ==
    /\ [][\A c \in Calls : Begins(c)
            => req'[c].pc = (IF db.cache = NoSessionId THEN "initialize" ELSE "call")
               /\ req'[c].sid = db.cache]_vars
    /\ [][db.cache # NoSessionId => db'.cache = db.cache]_vars
    /\ [][CachedSessionDropped
            => /\ db'.issued = db.issued
               /\ \A c \in Calls : Returns(c) => res'.outcome = "error"]_vars

\* C29, amended: a session is initialised only by a call that found the
\* cache empty; a call that found an id carries it, also after failures,
\* and every returning call leaves the id it carried in the cache, whatever
\* its outcome, so calls begun together from an empty cache replace each
\* other's ids; a call carrying a dropped id returns an error. So once the
\* cached session is dropped and no call in flight is initialising or
\* carries a live id, that stays so: every later call returns an error and
\* no session is initialised.
C29_CachedIdReusedUnlessCallsOverlap ==
    /\ [][\A c \in Calls : Begins(c)
            => req'[c].pc = (IF db.cache = NoSessionId THEN "initialize" ELSE "call")
               /\ req'[c].sid = db.cache]_vars
    /\ [][db'.issued # db.issued
            => \E c \in Calls : req[c].pc = "initialize" /\ req[c].cached = NoSessionId]_vars
    /\ [][\A c \in Calls : Returns(c) /\ req[c].pc = "call"
            => res'.sid = req[c].sid /\ db'.cache = req[c].sid
               /\ res'.outcome \in {"ok", "error"}
               /\ (req[c].cached # NoSessionId => req[c].sid = req[c].cached)]_vars
    /\ [][db'.cache # db.cache => \E c \in Calls : Returns(c) /\ req[c].pc = "call"]_vars
    /\ [][\A c \in Calls : Returns(c) /\ req[c].pc = "call" /\ req[c].sid \notin db.sessions
            => res'.outcome = "error"]_vars
    /\ [][CachedSessionDropped /\ NoLiveCallInFlight
            => /\ CachedSessionDropped' /\ NoLiveCallInFlight'
               /\ db'.issued = db.issued
               /\ \A c \in Calls : Returns(c) => res'.outcome = "error"]_vars

\* A call begun with the dropped id cached has returned an error and the
\* dropped id is still cached.
C29_Witness ==
    /\ CachedSessionDropped
    /\ res.outcome = "error"
    /\ res.cached = db.cache
    /\ res.sid = db.cache
    /\ \A c \in Calls : req[c].pc = "idle"

=============================================================================
